---- MODULE Spec2Model ----
(***************************************************************************)
(* Multi-tenant resource permission resolution of DocsAgent.               *)
(*                                                                         *)
(* The database tables read by PermissionChecker are the state; the        *)
(* operations are the PermissionChecker / PermissionManager methods, the   *)
(* tenant-management routes and the provisioning scripts that change the   *)
(* tables the checker reads.                                               *)
(*                                                                         *)
(* Conventions                                                             *)
(*   - a Python str is a sequence of one-character strings;                *)
(*   - a UUID is a natural number, str(uuid) is rendered by UuidStr;       *)
(*   - SQL NULL / Python None in an id column is 0 (ids start at 1), in a  *)
(*     DateTime column it is NULL_TIME;                                    *)
(*   - a table is the set of its rows, query(...).first() is the set of    *)
(*     matching rows (empty = None; the unique indexes make it at most one *)
(*     row where the code relies on it).                                   *)
(***************************************************************************)
EXTENDS Integers, Sequences, FiniteSets, TLC

VARIABLES
    platform_admins,      \* table platform_admins      (PlatformAdmin)
    tenant_roles,         \* table tenant_roles         (TenantRole)
    tenant_users,         \* table tenant_users         (TenantUser)
    resource_permissions, \* table resource_permissions (ResourcePermission)
    folders,              \* table folders              (Folder)
    documents,            \* table documents            (Document)
    now,                  \* datetime.utcnow()
    moves,                \* update_folder requests between validation and commit
    role_deletes,         \* delete_role requests between validation and commit
    last,                 \* outcome of the last PermissionChecker call
    managed,              \* outcome of the last PermissionManager call
    grant_calls,          \* grant_permission calls between lookup and commit
    tenants,              \* table tenants              (Tenant)
    requests,             \* the requests TenantMiddleware.dispatch is handling
    _tenant_context,      \* ContextVar 'tenant_context': its value in each task
    _tenant_user_context, \* ContextVar 'tenant_user_context': its value in each task
    evaluated             \* outcome of the last call of a function of the tenant layer

vars == <<platform_admins, tenant_roles, tenant_users, resource_permissions,
          folders, documents, now, moves, role_deletes, last, managed,
          grant_calls, tenants, requests, _tenant_context, _tenant_user_context,
          evaluated>>

\* what TenantMiddleware reads and writes
middleware == <<tenants, requests, _tenant_context, _tenant_user_context>>

store == <<platform_admins, tenant_roles, tenant_users, resource_permissions,
           folders, documents>>

----------------------------------------------------------------------------
(* Python values *)

NULL == 0
NULL_TIME == -1

DigitChars == <<"0", "1", "2", "3", "4", "5", "6", "7", "8", "9">>

IsDigit(c) == \E i \in 1..10 : DigitChars[i] = c

DigitVal(c) == (CHOOSE i \in 1..10 : DigitChars[i] = c) - 1

RECURSIVE IntToStr(_)
\* str(n) for a non-negative int: its decimal digits, no leading zero
IntToStr(n) ==
    IF n < 10 THEN <<DigitChars[n + 1]>>
    ELSE IntToStr(n \div 10) \o <<DigitChars[(n % 10) + 1]>>

RECURSIVE DigitsValue(_, _)
DigitsValue(s, acc) ==
    IF s = <<>> THEN acc
    ELSE DigitsValue(Tail(s), acc * 10 + DigitVal(Head(s)))

\* int(s): the value of a non-empty all-digit string (leading zeros allowed);
\* every other string raises ValueError.  The strings drawn here carry no
\* sign, blank or underscore.
StrToInt(s) ==
    IF s # <<>> /\ \A i \in 1..Len(s) : IsDigit(s[i])
    THEN [ok |-> TRUE, value |-> DigitsValue(s, 0)]
    ELSE [ok |-> FALSE, value |-> 0]

\* str(uuid): the canonical text of a UUID; never a decimal string
UuidStr(u) == <<"u">> \o IntToStr(u)

----------------------------------------------------------------------------
(* models/tenant_permission_models.py : Permission *)

NONE == 0
READ == 1
WRITE == 2
DELETE == 4
SHARE == 8
ADMIN == 16
DOWNLOAD == 32
COMMENT == 64
EXPORT == 128

RECURSIVE BitAnd(_, _)
BitAnd(a, b) ==
    IF a = 0 \/ b = 0 THEN 0
    ELSE (a % 2) * (b % 2) + 2 * BitAnd(a \div 2, b \div 2)

RECURSIVE BitOr(_, _)
BitOr(a, b) ==
    IF a = 0 THEN b
    ELSE IF b = 0 THEN a
    ELSE (IF (a % 2) + (b % 2) > 0 THEN 1 ELSE 0) + 2 * BitOr(a \div 2, b \div 2)

READER == BitOr(READ, DOWNLOAD)
EDITOR == BitOr(BitOr(READ, WRITE), BitOr(DOWNLOAD, COMMENT))
CONTRIBUTOR == BitOr(EDITOR, DELETE)
OWNER == BitOr(BitOr(CONTRIBUTOR, BitOr(SHARE, ADMIN)), EXPORT)

RECURSIVE Max_BitOr(_)
\* mutant: the values of a level are combined with | instead of max
Max_BitOr(S) ==
    IF S = {} THEN 0
    ELSE LET x == CHOOSE y \in S : TRUE IN BitOr(x, Max_BitOr(S \ {x}))

\* max(permissions) of a non-empty list of ints
Max(S) == CHOOSE x \in S : \A y \in S : y <= x

has_permission(user_perm, required_perm) ==
    BitAnd(user_perm, required_perm) = required_perm

\* ResourcePermission.is_expired
is_expired(perm) ==
    IF perm.expires_at # NULL_TIME THEN perm.expires_at < now ELSE FALSE

----------------------------------------------------------------------------
(* models/tenant_permission_models.py : enums *)

WORKSPACE == "workspace"
FOLDER == "folder"
DOCUMENT == "document"
ResourceType == {WORKSPACE, FOLDER, DOCUMENT}

USER == "user"
ROLE == "role"
DEPARTMENT == "department"
GranteeType == {USER, ROLE, DEPARTMENT}

SUPER_ADMIN == "super_admin"
OPS == "ops"
SUPPORT == "support"
AUDITOR == "auditor"
PlatformRole == {SUPER_ADMIN, OPS, SUPPORT, AUDITOR}

----------------------------------------------------------------------------
(* services/permission_checker.py : PermissionChecker *)

\* PermissionContext.__init__
PermissionContext(user_id, tenant_id, resource_type, resource_id, required_permission) ==
    [user_id |-> user_id, tenant_id |-> tenant_id, resource_type |-> resource_type,
     resource_id |-> resource_id, required_permission |-> required_permission]

\* outcomes of a call: a returned value or a raised exception
Return(v) == [kind |-> "return", value |-> v, status |-> 0, detail |-> ""]
ReturnTrue == [kind |-> "return", value |-> 1, status |-> 0, detail |-> ""]
RaiseHTTP(code, text) == [kind |-> "HTTPException", value |-> 0, status |-> code, detail |-> text]
RaiseValueError == [kind |-> "ValueError", value |-> 0, status |-> 0, detail |-> ""]

HTTP_403_FORBIDDEN == 403
HTTP_500_INTERNAL_SERVER_ERROR == 500

\* mutant: the lookup matches rows of one platform role only
_is_platform_admin_OpsOnly(user_id) ==
    LET admin == {a \in platform_admins : a.user_id = user_id /\ a.role = OPS}
    IN  admin # {}

_is_platform_admin(user_id) ==
    LET admin == {a \in platform_admins : a.user_id = user_id}
    IN  admin # {}

\* mutant: the membership is looked up without the tenant filter
_get_tenant_user_AnyTenant(user_id, tenant_id) ==
    {tu \in tenant_users : tu.user_id = user_id /\ tu.status = "active"}

\* query(TenantUser).filter(user_id, tenant_id, status == "active").first()
_get_tenant_user(user_id, tenant_id) ==
    {tu \in tenant_users : /\ tu.user_id = user_id
                           /\ UuidStr(tu.tenant_id) = tenant_id
                           /\ tu.status = "active"}

\* mutant: the membership check ignores the status column
_belongs_to_tenant_AnyStatus(user_id, tenant_id) ==
    LET tenant_user == {tu \in tenant_users : /\ tu.user_id = user_id
                                              /\ UuidStr(tu.tenant_id) = tenant_id}
    IN  tenant_user # {}

_belongs_to_tenant(user_id, tenant_id) ==
    LET tenant_user == {tu \in tenant_users : /\ tu.user_id = user_id
                                              /\ UuidStr(tu.tenant_id) = tenant_id
                                              /\ tu.status = "active"}
    IN  tenant_user # {}

\* the relationship TenantUser.role: the role row role_id refers to, if any
RoleOf(tenant_user) ==
    {r \in tenant_roles : \E tu \in tenant_user : tu.role_id # NULL /\ r.id = tu.role_id}

IsTenantAdminRow(tenant_user) ==
    tenant_user # {} /\ RoleOf(tenant_user) # {}
        /\ \A r \in RoleOf(tenant_user) : r.name = "tenant_admin"

\* mutant: the tenant is left out of the filter
_query_resource_permissions_AnyTenant(tenant_id, resource_type, resource_id, user_id, tenant_user) ==
    LET grantee_conditions(p) ==
            \/ p.grantee_type = USER /\ p.grantee_id = IntToStr(user_id)
            \/ \E tu \in tenant_user :
                   \/ /\ tu.role_id # NULL
                      /\ p.grantee_type = ROLE
                      /\ p.grantee_id = UuidStr(tu.role_id)
                   \/ /\ tu.department_id # NULL
                      /\ p.grantee_type = DEPARTMENT
                      /\ p.grantee_id = UuidStr(tu.department_id)
        perms == {p \in resource_permissions :
                     /\ p.resource_type = resource_type
                     /\ p.resource_id = resource_id
                     /\ grantee_conditions(p)}
    IN  {perm.permission : perm \in {p \in perms : ~is_expired(p)}}

\* mutant: a grant whose inherit flag is false is left out
_query_resource_permissions_InheritOnly(tenant_id, resource_type, resource_id, user_id, tenant_user) ==
    LET grantee_conditions(p) ==
            \/ p.grantee_type = USER /\ p.grantee_id = IntToStr(user_id)
            \/ \E tu \in tenant_user :
                   \/ /\ tu.role_id # NULL
                      /\ p.grantee_type = ROLE
                      /\ p.grantee_id = UuidStr(tu.role_id)
                   \/ /\ tu.department_id # NULL
                      /\ p.grantee_type = DEPARTMENT
                      /\ p.grantee_id = UuidStr(tu.department_id)
        perms == {p \in resource_permissions :
                     /\ UuidStr(p.tenant_id) = tenant_id
                     /\ p.resource_type = resource_type
                     /\ p.resource_id = resource_id
                     /\ p.inherit
                     /\ grantee_conditions(p)}
    IN  {perm.permission : perm \in {p \in perms : ~is_expired(p)}}

\* mutant: rows are remembered from before the last grant_permission call, so
\* the row that call wrote is not seen
_query_resource_permissions_Stale(tenant_id, resource_type, resource_id, user_id, tenant_user) ==
    LET grantee_conditions(p) ==
            \/ p.grantee_type = USER /\ p.grantee_id = IntToStr(user_id)
            \/ \E tu \in tenant_user :
                   \/ /\ tu.role_id # NULL
                      /\ p.grantee_type = ROLE
                      /\ p.grantee_id = UuidStr(tu.role_id)
                   \/ /\ tu.department_id # NULL
                      /\ p.grantee_type = DEPARTMENT
                      /\ p.grantee_id = UuidStr(tu.department_id)
        perms == {p \in resource_permissions \ managed.rows :
                     /\ UuidStr(p.tenant_id) = tenant_id
                     /\ p.resource_type = resource_type
                     /\ p.resource_id = resource_id
                     /\ grantee_conditions(p)}
    IN  {perm.permission : perm \in {p \in perms : ~is_expired(p)}}

\* the unexpired permission values of the grants on exactly this resource
\* whose grantee is the user, the member's role or the member's department
_query_resource_permissions(tenant_id, resource_type, resource_id, user_id, tenant_user) ==
    LET grantee_conditions(p) ==
            \/ p.grantee_type = USER /\ p.grantee_id = IntToStr(user_id)
            \/ \E tu \in tenant_user :
                   \/ /\ tu.role_id # NULL
                      /\ p.grantee_type = ROLE
                      /\ p.grantee_id = UuidStr(tu.role_id)
                   \/ /\ tu.department_id # NULL
                      /\ p.grantee_type = DEPARTMENT
                      /\ p.grantee_id = UuidStr(tu.department_id)
        perms == {p \in resource_permissions :
                     /\ UuidStr(p.tenant_id) = tenant_id
                     /\ p.resource_type = resource_type
                     /\ p.resource_id = resource_id
                     /\ grantee_conditions(p)}
    IN  {perm.permission : perm \in {p \in perms : ~is_expired(p)}}

NoParent == [kind |-> "none", type |-> "", id |-> <<>>]
ParentError == [kind |-> "ValueError", type |-> "", id |-> <<>>]

\* mutant: only a document has a parent, a folder never has
_get_parent_resource_DocumentOnly(resource_type, resource_id) ==
    LET n == StrToInt(resource_id)
        doc == {d \in documents : d.id = n.value}
    IN  IF resource_type \notin {DOCUMENT, FOLDER} THEN NoParent
        ELSE IF ~n.ok THEN ParentError
        ELSE IF resource_type = DOCUMENT /\ doc # {} /\ \A d \in doc : d.folder_id # NULL
        THEN [kind |-> "parent", type |-> FOLDER,
              id |-> IntToStr((CHOOSE d \in doc : TRUE).folder_id)]
        ELSE NoParent

\* mutant: the hierarchy of the docstring (document -> folder -> workspace):
\* a root folder and a document without folder have workspace '1' as parent
_get_parent_resource_ThenWorkspace(resource_type, resource_id) ==
    LET n == StrToInt(resource_id)
        above == IF resource_type = DOCUMENT
                 THEN {d.folder_id : d \in {x \in documents : x.id = n.value}}
                 ELSE {f.parent_id : f \in {x \in folders : x.id = n.value}}
    IN  IF resource_type \notin {DOCUMENT, FOLDER} THEN NoParent
        ELSE IF ~n.ok THEN ParentError
        ELSE IF above = {} THEN NoParent
        ELSE IF above = {NULL} THEN [kind |-> "parent", type |-> WORKSPACE, id |-> IntToStr(1)]
        ELSE [kind |-> "parent", type |-> FOLDER, id |-> IntToStr(CHOOSE x \in above : TRUE)]

_get_parent_resource(resource_type, resource_id) ==
    IF resource_type = DOCUMENT THEN
        LET n == StrToInt(resource_id)
            doc == {d \in documents : d.id = n.value}
        IN  IF ~n.ok THEN ParentError
            ELSE IF doc # {} /\ \A d \in doc : d.folder_id # NULL
                 THEN [kind |-> "parent", type |-> FOLDER,
                       id |-> IntToStr((CHOOSE d \in doc : TRUE).folder_id)]
                 ELSE NoParent
    ELSE IF resource_type = FOLDER THEN
        LET n == StrToInt(resource_id)
            folder == {f \in folders : f.id = n.value}
        IN  IF ~n.ok THEN ParentError
            ELSE IF folder # {} /\ \A f \in folder : f.parent_id # NULL
                 THEN [kind |-> "parent", type |-> FOLDER,
                       id |-> IntToStr((CHOOSE f \in folder : TRUE).parent_id)]
                 ELSE NoParent
    ELSE NoParent

max_depth == 10

\* lines 214-219: the role's default bitmask, 0 without a role
RoleDefault(tenant_user) ==
    IF tenant_user # {} /\ RoleOf(tenant_user) # {}
    THEN (CHOOSE r \in RoleOf(tenant_user) : TRUE).permissions
    ELSE NONE

RECURSIVE WalkFrom(_, _, _, _, _)
\* the loop of _get_resource_permission from iteration `depth` on, with
\* ctx.resource_type = resource_type and the local resource_id
WalkFrom(ctx, tenant_user, resource_type, resource_id, depth) ==
    IF depth >= max_depth \/ resource_id = <<>>
    THEN [out |-> Return(RoleDefault(tenant_user)), resource_type |-> resource_type]
    ELSE LET permissions == _query_resource_permissions(
                 ctx.tenant_id, resource_type, resource_id, ctx.user_id, tenant_user)
             parent_resource == _get_parent_resource(resource_type, resource_id)
         IN  IF permissions # {}
             THEN [out |-> Return(Max(permissions)), resource_type |-> resource_type]
             ELSE IF parent_resource.kind = "ValueError"
             THEN [out |-> RaiseValueError, resource_type |-> resource_type]
             ELSE IF parent_resource.kind = "none"
             THEN [out |-> Return(RoleDefault(tenant_user)), resource_type |-> resource_type]
             ELSE WalkFrom(ctx, tenant_user, parent_resource.type, parent_resource.id, depth + 1)

\* mutant: the grants of the parent are added to those of the target
_get_resource_permission_WithParent(ctx, tenant_user) ==
    LET parent_resource == _get_parent_resource(ctx.resource_type, ctx.resource_id)
        own == _query_resource_permissions(
                   ctx.tenant_id, ctx.resource_type, ctx.resource_id, ctx.user_id, tenant_user)
        above == IF parent_resource.kind = "parent"
                 THEN _query_resource_permissions(
                          ctx.tenant_id, parent_resource.type, parent_resource.id,
                          ctx.user_id, tenant_user)
                 ELSE {}
    IN  IF own # {} /\ above # {}
        THEN [out |-> Return(Max(own \cup above)), resource_type |-> ctx.resource_type]
        ELSE WalkFrom(ctx, tenant_user, ctx.resource_type, ctx.resource_id, 0)

\* .out is what the call returns or raises, .resource_type is ctx.resource_type
\* when the call ends (line 212 assigns it during the walk)
_get_resource_permission(ctx, tenant_user) ==
    WalkFrom(ctx, tenant_user, ctx.resource_type, ctx.resource_id, 0)

_check_resource_permission(ctx, tenant_user) ==
    LET user_perm == _get_resource_permission(ctx, tenant_user).out
    IN  IF user_perm.kind = "return"
        THEN Return(IF has_permission(user_perm.value, ctx.required_permission) THEN 1 ELSE 0)
        ELSE user_perm

check(ctx) ==
    IF _is_platform_admin(ctx.user_id) THEN ReturnTrue
    ELSE IF ~_belongs_to_tenant(ctx.user_id, ctx.tenant_id)
    THEN RaiseHTTP(HTTP_403_FORBIDDEN, "Access denied: user not in tenant")
    ELSE LET tenant_user == _get_tenant_user(ctx.user_id, ctx.tenant_id)
             has_perm == _check_resource_permission(ctx, tenant_user)
         IN  IF IsTenantAdminRow(tenant_user) THEN ReturnTrue
             ELSE IF has_perm.kind # "return"
             THEN RaiseHTTP(HTTP_500_INTERNAL_SERVER_ERROR, "Permission check failed")
             ELSE IF has_perm.value = 0
             THEN RaiseHTTP(HTTP_403_FORBIDDEN, "Permission denied")
             ELSE ReturnTrue

check_silent(ctx) ==
    IF check(ctx).kind = "HTTPException" THEN Return(0) ELSE check(ctx)

\* a database read that raises (OperationalError and the like)
RaiseError == [kind |-> "Exception", value |-> 0, status |-> 0, detail |-> ""]

\* the reads of check, by name; "none" when every read answers
Reads == {"none", "platform_admin", "membership", "tenant_user", "role", "grants", "parent"}

\* the walk for ctx comes to the query of _get_parent_resource (lines 279-293):
\* no grant applies at the resource itself and int(resource_id) has a value
ReadsParent(ctx, tenant_user) ==
    /\ ctx.resource_id # <<>>
    /\ _query_resource_permissions(ctx.tenant_id, ctx.resource_type, ctx.resource_id,
                                   ctx.user_id, tenant_user) = {}
    /\ ctx.resource_type \in {DOCUMENT, FOLDER}
    /\ StrToInt(ctx.resource_id).ok

\* lines 64-98: the body of the try block of check when the read named by
\* fault raises each time it is made
CheckBody(ctx, fault) ==
    LET tenant_user == _get_tenant_user(ctx.user_id, ctx.tenant_id)
        has_perm == _check_resource_permission(ctx, tenant_user)
    IN  IF fault = "platform_admin" THEN RaiseError
        ELSE IF _is_platform_admin(ctx.user_id) THEN ReturnTrue
        ELSE IF fault = "membership" THEN RaiseError
        ELSE IF ~_belongs_to_tenant(ctx.user_id, ctx.tenant_id)
        THEN RaiseHTTP(HTTP_403_FORBIDDEN, "Access denied: user not in tenant")
        ELSE IF fault = "tenant_user" THEN RaiseError
        ELSE IF fault = "role" /\ \E tu \in tenant_user : tu.role_id # NULL
        THEN RaiseError
        ELSE IF IsTenantAdminRow(tenant_user) THEN ReturnTrue
        ELSE IF fault = "grants" /\ ctx.resource_id # <<>> THEN RaiseError
        ELSE IF fault = "parent" /\ ReadsParent(ctx, tenant_user) THEN RaiseError
        ELSE IF has_perm.kind # "return" THEN has_perm
        ELSE IF has_perm.value = 0
        THEN RaiseHTTP(HTTP_403_FORBIDDEN, "Permission denied")
        ELSE ReturnTrue

\* an except clause that answers True for an exception that is no HTTPException
Handlers_Allow(body) ==
    IF body.kind \in {"return", "HTTPException"} THEN body ELSE ReturnTrue

\* lines 100-107: HTTPException is raised again, any other exception becomes
\* the 500
Handlers(body) ==
    IF body.kind \in {"return", "HTTPException"} THEN body
    ELSE RaiseHTTP(HTTP_500_INTERNAL_SERVER_ERROR, "Permission check failed")

check_failing(ctx, fault) == Handlers(CheckBody(ctx, fault))

\* lines 109-122
check_silent_failing(ctx, fault) ==
    IF check_failing(ctx, fault).kind = "HTTPException" THEN Return(0)
    ELSE check_failing(ctx, fault)

get_user_permission(ctx) ==
    LET tenant_user == _get_tenant_user(ctx.user_id, ctx.tenant_id)
    IN  IF _is_platform_admin(ctx.user_id) THEN Return(OWNER)
        ELSE IF IsTenantAdminRow(tenant_user) THEN Return(OWNER)
        ELSE _get_resource_permission(ctx, tenant_user).out

----------------------------------------------------------------------------
(* Rows *)

PlatformAdminRow(user_id, role) == [user_id |-> user_id, role |-> role]

TenantRoleRow(id, tenant_id, name, permissions, is_system) ==
    [id |-> id, tenant_id |-> tenant_id, name |-> name,
     permissions |-> permissions, is_system |-> is_system]

TenantUserRow(tenant_id, user_id, role_id, department_id, status) ==
    [tenant_id |-> tenant_id, user_id |-> user_id, role_id |-> role_id,
     department_id |-> department_id, status |-> status]

ResourcePermissionRow(tenant_id, resource_type, resource_id, grantee_type, grantee_id, permission, granted_by, expires_at) ==
    [tenant_id |-> tenant_id, resource_type |-> resource_type, resource_id |-> resource_id,
     grantee_type |-> grantee_type, grantee_id |-> grantee_id, permission |-> permission,
     inherit |-> TRUE, granted_by |-> granted_by, expires_at |-> expires_at,
     id |-> NULL]

FolderRow(id, parent_id) == [id |-> id, parent_id |-> parent_id]

TenantRow(id, slug, status, expires_at, trial_ends_at) ==
    [id |-> id, slug |-> slug, status |-> status, expires_at |-> expires_at,
     trial_ends_at |-> trial_ends_at, last_active_at |-> NULL_TIME]

DocumentRow(id, folder_id) == [id |-> id, folder_id |-> folder_id]

NoCall == [op |-> "none", ctx |-> PermissionContext(0, <<>>, "", <<>>, 0),
           result |-> Return(0), resource_type |-> ""]

NoManagerCall ==
    [op |-> "none", key |-> <<>>, args |-> <<>>, kind |-> "return", rows |-> {},
     deleted |-> 0, value |-> FALSE]

NoEvaluation == [op |-> "none", arg |-> <<>>, flag |-> FALSE, text |-> <<>>, value |-> 0]

\* every operation other than a PermissionChecker or PermissionManager call
\* leaves no call outcome
Forget ==
    /\ last' = NoCall
    /\ managed' = NoManagerCall
    /\ evaluated' = NoEvaluation
    /\ UNCHANGED <<grant_calls, middleware>>

----------------------------------------------------------------------------
(* fix_admin_permissions.py : the provisioning scripts *)

DEFAULT_TENANT_ID == 1

RoleByName(tenant_id, name) ==
    {r \in tenant_roles : r.tenant_id = tenant_id /\ r.name = name}

MembershipOf(tenant_id, user_id) ==
    {tu \in tenant_users : tu.tenant_id = tenant_id /\ tu.user_id = user_id}

fix_admin_permissions(user_id) ==
    LET tenant_admin_role == RoleByName(DEFAULT_TENANT_ID, "tenant_admin")
        tenant_user == MembershipOf(DEFAULT_TENANT_ID, user_id)
        role_id == (CHOOSE r \in tenant_admin_role : TRUE).id
    IN  /\ platform_admins' = {a \in platform_admins : a.user_id # user_id}
                                 \cup {PlatformAdminRow(user_id, SUPER_ADMIN)}
        /\ tenant_users' =
              IF tenant_admin_role = {} THEN tenant_users
              ELSE IF tenant_user # {}
              THEN {IF tu \in tenant_user /\ tu.role_id # role_id
                    THEN [tu EXCEPT !.role_id = role_id, !.status = "active"]
                    ELSE tu : tu \in tenant_users}
              ELSE tenant_users \cup
                   {TenantUserRow(DEFAULT_TENANT_ID, user_id, role_id, NULL, "active")}
        /\ Forget
        /\ UNCHANGED <<tenant_roles, resource_permissions, folders, documents, now,
                       moves, role_deletes>>

create_ops_user(user_id) ==
    LET member_role == RoleByName(DEFAULT_TENANT_ID, "member")
        tenant_user == MembershipOf(DEFAULT_TENANT_ID, user_id)
    IN  /\ platform_admins' = {a \in platform_admins : a.user_id # user_id}
                                 \cup {PlatformAdminRow(user_id, OPS)}
        /\ tenant_users' =
              IF member_role # {} /\ tenant_user = {}
              THEN tenant_users \cup
                   {TenantUserRow(DEFAULT_TENANT_ID, user_id,
                                  (CHOOSE r \in member_role : TRUE).id, NULL, "active")}
              ELSE tenant_users
        /\ Forget
        /\ UNCHANGED <<tenant_roles, resource_permissions, folders, documents, now,
                       moves, role_deletes>>

----------------------------------------------------------------------------
(* routes/tenants.py : membership and role management of the current tenant *)

\* lines 129-137: the dependency require_platform_admin lets the request
\* through
require_platform_admin(current_user) ==
    LET admin == {a \in platform_admins : a.user_id = current_user}
    IN  admin # {} /\ \A a \in admin : a.role = SUPER_ADMIN

\* the dependency require_tenant_admin lets the request through
require_tenant_admin(tenant_id, current_user) ==
    LET tenant_user == {tu \in tenant_users : /\ tu.tenant_id = tenant_id
                                              /\ tu.user_id = current_user
                                              /\ tu.status = "active"}
    IN  IsTenantAdminRow(tenant_user)

invite_user_to_tenant(tenant_id, current_user, user_id, role_name, department_id) ==
    LET existing == MembershipOf(tenant_id, user_id)
        role == RoleByName(tenant_id, role_name)
    IN  /\ require_tenant_admin(tenant_id, current_user)
        /\ existing = {}
        /\ role # {}
        /\ tenant_users' = tenant_users \cup
              {TenantUserRow(tenant_id, user_id, (CHOOSE r \in role : TRUE).id,
                             department_id, "active")}
        /\ Forget
        /\ UNCHANGED <<platform_admins, tenant_roles, resource_permissions, folders,
                       documents, now, moves, role_deletes>>

remove_user(tenant_id, current_user, user_id) ==
    LET tenant_user == MembershipOf(tenant_id, user_id)
    IN  /\ require_tenant_admin(tenant_id, current_user)
        /\ tenant_user # {}
        /\ user_id # current_user
        /\ tenant_users' = tenant_users \ tenant_user
        /\ Forget
        /\ UNCHANGED <<platform_admins, tenant_roles, resource_permissions, folders,
                       documents, now, moves, role_deletes>>

update_user_status(tenant_id, current_user, user_id, status) ==
    LET tenant_user == MembershipOf(tenant_id, user_id)
    IN  /\ require_tenant_admin(tenant_id, current_user)
        /\ status \in {"active", "disabled"}
        /\ tenant_user # {}
        /\ user_id # current_user
        /\ tenant_users' = {IF tu \in tenant_user THEN [tu EXCEPT !.status = status]
                            ELSE tu : tu \in tenant_users}
        /\ Forget
        /\ UNCHANGED <<platform_admins, tenant_roles, resource_permissions, folders,
                       documents, now, moves, role_deletes>>

update_user_role(tenant_id, current_user, user_id, role_name) ==
    LET tenant_user == MembershipOf(tenant_id, user_id)
        new_role == RoleByName(tenant_id, role_name)
    IN  /\ require_tenant_admin(tenant_id, current_user)
        /\ tenant_user # {}
        /\ new_role # {}
        /\ tenant_users' = {IF tu \in tenant_user
                            THEN [tu EXCEPT !.role_id = (CHOOSE r \in new_role : TRUE).id]
                            ELSE tu : tu \in tenant_users}
        /\ Forget
        /\ UNCHANGED <<platform_admins, tenant_roles, resource_permissions, folders,
                       documents, now, moves, role_deletes>>

\* uuid.uuid4() is modelled by the caller-supplied fresh identifier
create_role(tenant_id, current_user, id, name, permissions) ==
    LET existing == RoleByName(tenant_id, name)
    IN  /\ require_tenant_admin(tenant_id, current_user)
        /\ existing = {}
        /\ \A r \in tenant_roles : r.id # id
        /\ tenant_roles' = tenant_roles \cup
              {TenantRoleRow(id, tenant_id, name, permissions, FALSE)}
        /\ Forget
        /\ UNCHANGED <<platform_admins, tenant_users, resource_permissions, folders,
                       documents, now, moves, role_deletes>>

update_role(tenant_id, current_user, role_id, permissions) ==
    LET role == {r \in tenant_roles : r.id = role_id /\ r.tenant_id = tenant_id}
    IN  /\ require_tenant_admin(tenant_id, current_user)
        /\ role # {}
        /\ \A r \in role : ~r.is_system
        /\ tenant_roles' = {IF r \in role THEN [r EXCEPT !.permissions = permissions]
                            ELSE r : r \in tenant_roles}
        /\ Forget
        /\ UNCHANGED <<platform_admins, tenant_users, resource_permissions, folders,
                       documents, now, moves, role_deletes>>

\* delete_role, lines 955-975: the lookups and the users_with_role count
delete_role_validate(tenant_id, current_user, role_id) ==
    LET role == {r \in tenant_roles : r.id = role_id /\ r.tenant_id = tenant_id}
        users_with_role == {tu \in tenant_users : tu.role_id = role_id}
    IN  /\ require_tenant_admin(tenant_id, current_user)
        /\ role # {}
        /\ \A r \in role : ~r.is_system
        /\ users_with_role = {}
        /\ role_id \notin role_deletes
        /\ role_deletes' = role_deletes \cup {role_id}
        /\ Forget
        /\ UNCHANGED <<platform_admins, tenant_roles, tenant_users, resource_permissions,
                       folders, documents, now, moves>>

\* delete_role, lines 984-985: db.delete + commit; tenant_users.role_id is
\* ON DELETE SET NULL (tenant_permission_models.py line 120)
delete_role_commit(role_id) ==
    /\ role_id \in role_deletes
    /\ role_deletes' = role_deletes \ {role_id}
    /\ tenant_roles' = {r \in tenant_roles : r.id # role_id}
    /\ tenant_users' = {IF tu.role_id = role_id THEN [tu EXCEPT !.role_id = NULL]
                        ELSE tu : tu \in tenant_users}
    /\ Forget
    /\ UNCHANGED <<platform_admins, resource_permissions, folders, documents, now, moves>>

----------------------------------------------------------------------------
(* services/permission_checker.py : PermissionManager *)

SameKey(p, tenant_id, resource_type, resource_id, grantee_type, grantee_id) ==
    /\ p.tenant_id = tenant_id
    /\ p.resource_type = resource_type
    /\ p.resource_id = resource_id
    /\ p.grantee_type = grantee_type
    /\ p.grantee_id = grantee_id

\* lines 331-337: the lookup of grant_permission, as a call that has not yet
\* written: its arguments and the row .first() returned, if any
GrantCall(session, tenant_id, resource_type, resource_id, grantee_type, grantee_id, permission, granted_by, expires_at) ==
    [session |-> session,
     key |-> <<tenant_id, resource_type, resource_id, grantee_type, grantee_id>>,
     permission |-> permission, granted_by |-> granted_by, expires_at |-> expires_at,
     existing |-> {p \in resource_permissions :
                      SameKey(p, tenant_id, resource_type, resource_id,
                              grantee_type, grantee_id)},
     \* where the call is, how it ended, and the sessions that were between
     \* their lookup and their commit when it looked up
     pc |-> "looked up", kind |-> "none",
     with |-> {c.session : c \in {d \in grant_calls : d.pc = "looked up"}}]

\* a grant_permission that always takes the 'else' branch and stores a new row
GrantWrite_Insert(c) ==
    LET new_perm == [ResourcePermissionRow(c.key[1], c.key[2], c.key[3], c.key[4],
                                           c.key[5], c.permission, c.granted_by,
                                           c.expires_at)
                        EXCEPT !.id = 100 + Cardinality(resource_permissions)]
    IN  [table |-> resource_permissions \cup {new_perm}, kind |-> "return",
         rows |-> {new_perm}]

\* lines 339-363: what the call c writes and returns.
\* 'if existing': the three assignments mark as modified the attributes whose
\* value differs from the loaded one, and the commit's UPDATE ... WHERE id = :id
\* sets those columns only; it matches no row when the row has been deleted
\* meanwhile (StaleDataError), and with nothing to write refresh() finds no row
\* (InvalidRequestError).
\* 'else': ResourcePermission(...) is built without an id, the column
\* (tenant_permission_models.py:183) has no default, and the INSERT of a NULL
\* primary key is rejected (IntegrityError): no row is stored.
GrantWrite(c) ==
    LET old == CHOOSE p \in c.existing : TRUE
        current == {p \in resource_permissions : p.id = old.id}
        dirty == (c.permission # old.permission) \/ (c.granted_by # old.granted_by)
                    \/ (c.expires_at # old.expires_at)
        written(p) ==
            [p EXCEPT !.permission = IF c.permission # old.permission
                                     THEN c.permission ELSE @,
                      !.granted_by = IF c.granted_by # old.granted_by
                                     THEN c.granted_by ELSE @,
                      !.expires_at = IF c.expires_at # old.expires_at
                                     THEN c.expires_at ELSE @]
    IN  IF c.existing = {}
        THEN [table |-> resource_permissions, kind |-> "IntegrityError", rows |-> {}]
        ELSE IF current = {}
        THEN [table |-> resource_permissions,
              kind |-> IF dirty THEN "StaleDataError" ELSE "InvalidRequestError",
              rows |-> {}]
        ELSE [table |-> {IF p \in current THEN written(p) ELSE p :
                            p \in resource_permissions},
              kind |-> "return",
              rows |-> {written(p) : p \in current}]

GrantOutcome(c) ==
    [op |-> "grant_permission", key |-> c.key,
     args |-> <<c.permission, c.granted_by, c.expires_at>>,
     kind |-> GrantWrite(c).kind, rows |-> GrantWrite(c).rows,
     deleted |-> 0, value |-> FALSE]

\* the whole call, with no other session between its lookup and its commit
grant_permission(tenant_id, resource_type, resource_id, grantee_type, grantee_id, permission, granted_by, expires_at) ==
    LET c == GrantCall(0, tenant_id, resource_type, resource_id, grantee_type,
                       grantee_id, permission, granted_by, expires_at)
    IN  /\ resource_permissions' = GrantWrite(c).table
        /\ managed' = GrantOutcome(c)
        /\ last' = NoCall /\ evaluated' = NoEvaluation
        /\ UNCHANGED <<platform_admins, tenant_roles, tenant_users, folders, documents,
                       now, moves, role_deletes, grant_calls, middleware>>

\* the same call in two steps, for sessions that run side by side
grant_permission_lookup(session, tenant_id, resource_type, resource_id, grantee_type, grantee_id, permission, granted_by, expires_at) ==
    /\ \A c \in grant_calls : c.session # session
    /\ grant_calls' = grant_calls \cup
          {GrantCall(session, tenant_id, resource_type, resource_id, grantee_type,
                     grantee_id, permission, granted_by, expires_at)}
    /\ last' = NoCall /\ evaluated' = NoEvaluation
    /\ managed' = NoManagerCall
    /\ UNCHANGED <<platform_admins, tenant_roles, tenant_users, resource_permissions,
                   folders, documents, now, moves, role_deletes, middleware>>

grant_permission_commit(c) ==
    /\ c \in grant_calls
    /\ c.pc = "looked up"
    /\ grant_calls' = (grant_calls \ {c}) \cup
          {[c EXCEPT !.pc = "done", !.kind = GrantWrite(c).kind]}
    /\ resource_permissions' = GrantWrite(c).table
    /\ managed' = GrantOutcome(c)
    /\ last' = NoCall /\ evaluated' = NoEvaluation
    /\ UNCHANGED <<platform_admins, tenant_roles, tenant_users, folders, documents,
                   now, moves, role_deletes, middleware>>

\* a revoke_permission whose filter leaves out the grantee
revoke_permission_AnyGrantee(tenant_id, resource_type, resource_id, grantee_type, grantee_id) ==
    LET deleted == {p \in resource_permissions :
                       /\ p.tenant_id = tenant_id
                       /\ p.resource_type = resource_type
                       /\ p.resource_id = resource_id}
    IN  /\ resource_permissions' = resource_permissions \ deleted
        /\ managed' = [op |-> "revoke_permission",
                       key |-> <<tenant_id, resource_type, resource_id,
                                 grantee_type, grantee_id>>,
                       args |-> <<>>, kind |-> "return", rows |-> {},
                       deleted |-> Cardinality(deleted),
                       value |-> Cardinality(deleted) > 0]
        /\ last' = NoCall /\ evaluated' = NoEvaluation
        /\ UNCHANGED <<platform_admins, tenant_roles, tenant_users, folders, documents,
                       now, moves, role_deletes, grant_calls, middleware>>

revoke_permission(tenant_id, resource_type, resource_id, grantee_type, grantee_id) ==
    LET deleted == {p \in resource_permissions :
                       SameKey(p, tenant_id, resource_type, resource_id,
                               grantee_type, grantee_id)}
    IN  /\ resource_permissions' = resource_permissions \ deleted
        /\ managed' = [op |-> "revoke_permission",
                       key |-> <<tenant_id, resource_type, resource_id,
                                 grantee_type, grantee_id>>,
                       args |-> <<>>, kind |-> "return", rows |-> {},
                       deleted |-> Cardinality(deleted),
                       value |-> Cardinality(deleted) > 0]
        /\ last' = NoCall /\ evaluated' = NoEvaluation
        /\ UNCHANGED <<platform_admins, tenant_roles, tenant_users, folders, documents,
                       now, moves, role_deletes, grant_calls, middleware>>

list_resource_permissions(tenant_id, resource_type, resource_id) ==
    /\ managed' = [op |-> "list_resource_permissions",
                   key |-> <<tenant_id, resource_type, resource_id>>,
                   args |-> <<>>, kind |-> "return",
                   rows |-> {p \in resource_permissions :
                                /\ p.tenant_id = tenant_id
                                /\ p.resource_type = resource_type
                                /\ p.resource_id = resource_id},
                   deleted |-> 0, value |-> FALSE]
    /\ last' = NoCall /\ evaluated' = NoEvaluation
    /\ UNCHANGED <<platform_admins, tenant_roles, tenant_users, resource_permissions,
                   folders, documents, now, moves, role_deletes, grant_calls,
                   middleware>>

\* the inherit column of a stored grant set from outside the services (no
\* function under services/ or routes/ writes it; the column default is true)
set_inherit(p, inherit) ==
    /\ p \in resource_permissions
    /\ resource_permissions' =
          (resource_permissions \ {p}) \cup {[p EXCEPT !.inherit = inherit]}
    /\ Forget
    /\ UNCHANGED <<platform_admins, tenant_roles, tenant_users, folders, documents,
                   now, moves, role_deletes>>

----------------------------------------------------------------------------
(* models/tenant_permission_models.py : Permission, read and used by callers *)

PermissionNames ==
    {"NONE", "READ", "WRITE", "DELETE", "SHARE", "ADMIN", "DOWNLOAD", "COMMENT",
     "EXPORT", "READER", "EDITOR", "CONTRIBUTOR", "OWNER"}

\* the class attribute Permission.<name>
PermissionAttr(name) ==
    CASE name = "NONE" -> NONE
      [] name = "READ" -> READ
      [] name = "WRITE" -> WRITE
      [] name = "DELETE" -> DELETE
      [] name = "SHARE" -> SHARE
      [] name = "ADMIN" -> ADMIN
      [] name = "DOWNLOAD" -> DOWNLOAD
      [] name = "COMMENT" -> COMMENT
      [] name = "EXPORT" -> EXPORT
      [] name = "READER" -> READER
      [] name = "EDITOR" -> EDITOR
      [] name = "CONTRIBUTOR" -> CONTRIBUTOR
      [] name = "OWNER" -> OWNER

CallPermissionAttr(name) ==
    /\ evaluated' = [op |-> "Permission", arg |-> name, flag |-> FALSE, text |-> <<>>,
                     value |-> PermissionAttr(name)]
    /\ last' = NoCall
    /\ managed' = NoManagerCall
    /\ UNCHANGED <<store, now, moves, role_deletes, grant_calls, middleware>>

CallHasPermission(user_perm, required_perm) ==
    /\ evaluated' = [op |-> "has_permission", arg |-> <<user_perm, required_perm>>,
                     flag |-> has_permission(user_perm, required_perm),
                     text |-> <<>>, value |-> 0]
    /\ last' = NoCall
    /\ managed' = NoManagerCall
    /\ UNCHANGED <<store, now, moves, role_deletes, grant_calls, middleware>>

----------------------------------------------------------------------------
(* models/tenant_models.py : Tenant *)

TenantStatuses == {"active", "suspended", "archived", "trial"}

\* an is_active that ends the trial of a tenant of any status
is_active_TrialEndForAll(tenant) ==
    IF tenant.status # "active" /\ tenant.status # "trial" THEN FALSE
    ELSE IF tenant.expires_at # NULL_TIME /\ tenant.expires_at < now THEN FALSE
    ELSE IF tenant.trial_ends_at # NULL_TIME /\ tenant.trial_ends_at < now THEN FALSE
    ELSE TRUE

\* lines 125-139
is_active(tenant) ==
    IF tenant.status # "active" /\ tenant.status # "trial" THEN FALSE
    ELSE IF tenant.expires_at # NULL_TIME /\ tenant.expires_at < now THEN FALSE
    ELSE IF /\ tenant.status = "trial"
            /\ tenant.trial_ends_at # NULL_TIME
            /\ tenant.trial_ends_at < now
    THEN FALSE
    ELSE TRUE

CallIsActive(tenant) ==
    /\ evaluated' = [op |-> "is_active", arg |-> tenant, flag |-> is_active(tenant),
                     text |-> <<>>,
                     value |-> 0]
    /\ last' = NoCall
    /\ managed' = NoManagerCall
    /\ UNCHANGED <<store, now, moves, role_deletes, grant_calls, middleware>>

----------------------------------------------------------------------------
(* services/tenant_context.py : TenantExtractor *)

RECURSIVE Split(_, _)
\* s.split(sep) for a one-character separator
Split(s, sep) ==
    IF \E i \in 1..Len(s) : s[i] = sep
    THEN LET i == CHOOSE j \in 1..Len(s) : s[j] = sep /\ \A k \in 1..(j - 1) : s[k] # sep
         IN  <<SubSeq(s, 1, i - 1)>> \o Split(SubSeq(s, i + 1, Len(s)), sep)
    ELSE <<s>>

\* s.startswith(prefix)
StartsWith(s, prefix) ==
    Len(s) >= Len(prefix) /\ SubSeq(s, 1, Len(prefix)) = prefix

\* what extract_tenant_id reads of a request; a parameter or header is the
\* set of its values: empty when the request does not carry it
Request(path, path_params, query_params, x_tenant_id, host) ==
    [path |-> path, path_params |-> path_params, query_params |-> query_params,
     x_tenant_id |-> x_tenant_id, host |-> host]

Only(values) == CHOOSE v \in values : TRUE

\* line 128
ExcludedPrefixes == {<<"w", "w", "w">>, <<"a", "p", "i">>,
                      <<"a", "d", "m", "i", "n">>, <<"a", "p", "p">>}

\* lines 104-131; None is the empty set
_extract_slug_from_host(host) ==
    LET parts == Split(Split(host, ":")[1], ".")
    IN  IF Len(parts) >= 3 /\ parts[1] \notin ExcludedPrefixes
        THEN {parts[1]}
        ELSE {}

\* str(uuid.UUID('00000000-0000-0000-0000-000000000001'))
DefaultTenantText == UuidStr(DEFAULT_TENANT_ID)

\* request.headers.get("Host", "")
HostOf(request) == IF request.host = {} THEN <<>> ELSE Only(request.host)

\* an extract_tenant_id that reads the header before the query parameter
extract_tenant_id_HeaderFirst(request) ==
    LET tenant_slug == _extract_slug_from_host(HostOf(request))
    IN  IF request.path_params # {} THEN Only(request.path_params)
        ELSE IF request.x_tenant_id # {} /\ Only(request.x_tenant_id) # <<>>
        THEN Only(request.x_tenant_id)
        ELSE IF request.query_params # {} THEN Only(request.query_params)
        ELSE IF tenant_slug # {} /\ Only(tenant_slug) # <<>> THEN Only(tenant_slug)
        ELSE DefaultTenantText

\* lines 61-102
extract_tenant_id(request) ==
    LET tenant_slug == _extract_slug_from_host(HostOf(request))
    IN  IF request.path_params # {} THEN Only(request.path_params)
        ELSE IF request.query_params # {} THEN Only(request.query_params)
        ELSE IF request.x_tenant_id # {} /\ Only(request.x_tenant_id) # <<>>
        THEN Only(request.x_tenant_id)
        ELSE IF tenant_slug # {} /\ Only(tenant_slug) # <<>> THEN Only(tenant_slug)
        ELSE DefaultTenantText

\* uuid.UUID(identifier) succeeds: the text of a UUID, here "u" and digits
IsUuidText(identifier) ==
    /\ Len(identifier) >= 2
    /\ identifier[1] = "u"
    /\ StrToInt(Tail(identifier)).ok

\* lines 133-153: by id when the identifier is the text of a UUID, else by slug
get_tenant_by_identifier(identifier) ==
    IF IsUuidText(identifier)
    THEN {t \in tenants : t.id = StrToInt(Tail(identifier)).value}
    ELSE {t \in tenants : t.slug = identifier}

CallExtractTenantId(request) ==
    /\ evaluated' = [op |-> "extract_tenant_id", arg |-> request, flag |-> FALSE,
                     text |-> extract_tenant_id(request),
                     value |-> 0]
    /\ last' = NoCall
    /\ managed' = NoManagerCall
    /\ UNCHANGED <<store, now, moves, role_deletes, grant_calls, middleware>>

----------------------------------------------------------------------------
(* services/tenant_context.py : TenantContext and TenantMiddleware *)

HTTP_404_NOT_FOUND == 404

\* a ContextVar.set that writes one slot shared by every task
ContextSet_Shared(var, task, value) == [t \in DOMAIN var |-> value]

\* ContextVar.set(value) in a task: the variable changes in the context of
\* that task, and each request is handled in a task with a context of its own
ContextSet(var, task, value) == [var EXCEPT ![task] = value]

\* a clear() that leaves the context as it is
clear_Nothing(var, task) == var

\* lines 51-55: TenantContext.clear() sets a context variable to None
clear(var, task) == ContextSet(var, task, NULL)

\* lines 256-283
skip_paths ==
    {<<"/">>,
     <<"/", "h", "e", "a", "l", "t", "h">>,
     <<"/", "d", "o", "c", "s">>,
     <<"/", "r", "e", "d", "o", "c">>,
     <<"/", "o", "p", "e", "n", "a", "p", "i", ".", "j", "s", "o", "n">>,
     <<"/", "a", "p", "i", "/", "a", "u", "t", "h", "/", "r", "e", "g", "i", "s", "t", "e", "r">>,
     <<"/", "a", "p", "i", "/", "a", "u", "t", "h", "/", "l", "o", "g", "i", "n">>,
     <<"/", "a", "p", "i", "/", "a", "u", "t", "h", "/", "m", "e">>,
     <<"/", "a", "p", "i", "/", "p", "l", "a", "t", "f", "o", "r", "m">>}

_should_skip(path) == \E skip_path \in skip_paths : StartsWith(path, skip_path)

CallShouldSkip(path) ==
    /\ evaluated' = [op |-> "_should_skip", arg |-> path, flag |-> _should_skip(path),
                     text |-> <<>>,
                     value |-> 0]
    /\ last' = NoCall
    /\ managed' = NoManagerCall
    /\ UNCHANGED <<store, now, moves, role_deletes, grant_calls, middleware>>

\* how dispatch ends
Response(x_tenant_id) ==
    [kind |-> "response", status |-> 200, detail |-> "", x_tenant_id |-> x_tenant_id]
Raised(code, text) ==
    [kind |-> "HTTPException", status |-> code, detail |-> text, x_tenant_id |-> {}]
\* an exception of the handler that leaves dispatch as it is
Propagated == [kind |-> "Exception", status |-> 0, detail |-> "", x_tenant_id |-> {}]

InitFailed == Raised(HTTP_500_INTERNAL_SERVER_ERROR, "Tenant context initialization failed")

\* the database calls of dispatch that may raise: next(self.get_db()), the
\* query of get_tenant_by_identifier, db.commit()
DbFaults == {"none", "session", "query", "commit"}

\* a resolution that does not look at the tenant's status
Refusal_StatusIgnored(found) ==
    IF found = {} THEN Raised(HTTP_404_NOT_FOUND, "Tenant not found")
    ELSE Response({})

\* lines 203-216: the exception for a tenant that is not found or not active;
\* a response stands for no exception
Refusal(found) ==
    IF found = {} THEN Raised(HTTP_404_NOT_FOUND, "Tenant not found")
    ELSE IF ~is_active(CHOOSE t \in found : TRUE)
    THEN Raised(HTTP_403_FORBIDDEN, "Tenant is not active")
    ELSE Response({})

\* lines 183-236: dispatch from its first statement to the call of call_next
\* or to the exception that ends it; no await lies in between.  The record
\* keeps whether set_tenant was called (populated) and whether call_next was.
DispatchEnter(task, fault) ==
    LET r == requests[task]
        request == r.request
        tenant_identifier == extract_tenant_id(request)
        found == get_tenant_by_identifier(tenant_identifier)
        tenant == CHOOSE t \in found : TRUE
        cleared == clear(_tenant_context, task)
        ends(outcome, was_set) ==
            [reqs |-> [requests EXCEPT ![task] =
                               [r EXCEPT !.pc = "finished", !.outcome = outcome,
                                         !.fault = fault,
                                         !.looked_up = fault # "session",
                                         !.populated = was_set]],
             ctx |-> clear(cleared, task),
             table |-> tenants]
        calls_next(skipped, looked_up, was_set, state, context, table) ==
            [reqs |-> [requests EXCEPT ![task] =
                               [r EXCEPT !.pc = "downstream", !.skipped = skipped,
                                         !.fault = fault,
                                         !.looked_up = looked_up,
                                         !.populated = was_set,
                                         !.called_next = TRUE,
                                         !.state_tenant_id = state]],
             ctx |-> context,
             table |-> table]
    IN  IF _should_skip(request.path)
        THEN calls_next(TRUE, FALSE, FALSE, {}, cleared, tenants)
        ELSE IF tenant_identifier = <<>>
        THEN calls_next(FALSE, FALSE, FALSE, {}, cleared, tenants)
        ELSE IF fault \in {"session", "query"}
        THEN ends(InitFailed, FALSE)
        ELSE IF Refusal(found).kind = "HTTPException"
        THEN ends(Refusal(found), FALSE)
        ELSE IF fault = "commit"
        THEN ends(InitFailed, TRUE)
        ELSE calls_next(FALSE, TRUE, TRUE, {UuidStr(tenant.id)},
                        ContextSet(cleared, task, tenant.id),
                        {IF t = tenant THEN [t EXCEPT !.last_active_at = now] ELSE t :
                            t \in tenants})

dispatch_enter(task, fault) ==
    /\ requests[task].pc = "received"
    /\ requests' = DispatchEnter(task, fault).reqs
    /\ _tenant_context' = DispatchEnter(task, fault).ctx
    /\ _tenant_user_context' = clear(_tenant_user_context, task)
    /\ tenants' = DispatchEnter(task, fault).table
    /\ last' = NoCall
    /\ managed' = NoManagerCall
    /\ evaluated' = NoEvaluation
    /\ UNCHANGED <<store, now, moves, role_deletes, grant_calls>>

\* the server hands the next request to the middleware
dispatch_called(task, request) ==
    /\ requests[task].pc = "finished"
    /\ requests' = [requests EXCEPT ![task] =
                       [pc |-> "received", request |-> request, skipped |-> FALSE,
                        looked_up |-> FALSE, populated |-> FALSE, called_next |-> FALSE,
                        state_tenant_id |-> {}, reads |-> {}, fault |-> "none",
                        outcome |-> [kind |-> "none", status |-> 0, detail |-> "",
                                     x_tenant_id |-> {}]]]
    /\ last' = NoCall
    /\ managed' = NoManagerCall
    /\ evaluated' = NoEvaluation
    /\ UNCHANGED <<store, now, moves, role_deletes, grant_calls, tenants,
                   _tenant_context, _tenant_user_context>>

\* audit_service.py lines 69-72: the handler logs an audit record and
\* AuditService.log reads TenantContext.get_tenant()
handler_log(task) ==
    /\ requests[task].pc = "downstream"
    /\ requests' = [requests EXCEPT ![task].reads = @ \cup {_tenant_context[task]}]
    /\ last' = NoCall
    /\ managed' = NoManagerCall
    /\ evaluated' = NoEvaluation
    /\ UNCHANGED <<store, now, moves, role_deletes, grant_calls, tenants,
                   _tenant_context, _tenant_user_context>>

\* lines 188 and 236-254: call_next returns a response or raises, and dispatch
\* ends.  On the skipped path the result of call_next is the result of
\* dispatch and no statement follows; on the other the header is added, an
\* exception becomes the 500 of lines 246-251, and the finally clause clears.
dispatch_leave(task, handler_raises) ==
    LET r == requests[task]
        outcome == IF r.skipped
                   THEN IF handler_raises THEN Propagated ELSE Response({})
                   ELSE IF handler_raises THEN InitFailed
                   ELSE Response(r.state_tenant_id)
    IN  /\ r.pc = "downstream"
        /\ requests' = [requests EXCEPT ![task] =
                           [r EXCEPT !.pc = "finished", !.outcome = outcome]]
        /\ _tenant_context' = IF r.skipped THEN _tenant_context
                              ELSE clear(_tenant_context, task)
        /\ _tenant_user_context' = IF r.skipped THEN _tenant_user_context
                                   ELSE clear(_tenant_user_context, task)
        /\ last' = NoCall
        /\ managed' = NoManagerCall
        /\ evaluated' = NoEvaluation
        /\ UNCHANGED <<store, now, moves, role_deletes, grant_calls, tenants>>

----------------------------------------------------------------------------
(* routes/folders.py : update_folder moves a folder *)

RECURSIVE ChainHits(_, _, _)
\* the while loop of lines 241-246 from current_parent on: "hit" when it meets
\* folder_id, "clear" when it runs off the top, "loops" when it never ends
ChainHits(current_parent, folder_id, seen) ==
    LET row == {f \in folders : f.id = current_parent}
    IN  IF current_parent = NULL \/ row = {} THEN "clear"
        ELSE IF current_parent = folder_id THEN "hit"
        ELSE IF current_parent \in seen THEN "loops"
        ELSE ChainHits((CHOOSE f \in row : TRUE).parent_id, folder_id,
                       seen \cup {current_parent})

\* lines 211-246: the folder and parent lookups and the circular-reference check
update_folder_validate(folder_id, parent_id) ==
    LET folder == {f \in folders : f.id = folder_id}
        parent == {f \in folders : f.id = parent_id}
    IN  /\ folder # {}
        /\ parent_id # NULL
        /\ parent_id # folder_id
        /\ parent # {}
        /\ ChainHits(parent_id, folder_id, {}) = "clear"
        /\ [folder_id |-> folder_id, parent_id |-> parent_id] \notin moves
        /\ moves' = moves \cup {[folder_id |-> folder_id, parent_id |-> parent_id]}
        /\ Forget
        /\ UNCHANGED <<platform_admins, tenant_roles, tenant_users, resource_permissions,
                       folders, documents, now, role_deletes>>

\* lines 248-258: folder.parent_id = parent_id and the commit
update_folder_commit(m) ==
    /\ m \in moves
    /\ moves' = moves \ {m}
    /\ folders' = {IF f.id = m.folder_id THEN [f EXCEPT !.parent_id = m.parent_id]
                   ELSE f : f \in folders}
    /\ Forget
    /\ UNCHANGED <<platform_admins, tenant_roles, tenant_users, resource_permissions,
                   documents, now, role_deletes>>

----------------------------------------------------------------------------
(* time passes *)

Tick ==
    /\ now' = now + 1
    /\ Forget
    /\ UNCHANGED <<platform_admins, tenant_roles, tenant_users, resource_permissions,
                   folders, documents, moves, role_deletes>>

----------------------------------------------------------------------------
(* calls of the two public operations of PermissionChecker *)

\* ctx.resource_type after check(ctx): the walk runs only for a member who is
\* neither platform admin nor tenant admin
TypeAfterCheck(ctx) ==
    LET tenant_user == _get_tenant_user(ctx.user_id, ctx.tenant_id)
    IN  IF \/ _is_platform_admin(ctx.user_id)
           \/ ~_belongs_to_tenant(ctx.user_id, ctx.tenant_id)
           \/ IsTenantAdminRow(tenant_user)
        THEN ctx.resource_type
        ELSE _get_resource_permission(ctx, tenant_user).resource_type

TypeAfterGet(ctx) ==
    LET tenant_user == _get_tenant_user(ctx.user_id, ctx.tenant_id)
    IN  IF _is_platform_admin(ctx.user_id) \/ IsTenantAdminRow(tenant_user)
        THEN ctx.resource_type
        ELSE _get_resource_permission(ctx, tenant_user).resource_type

CallCheck(ctx) ==
    /\ last' = [op |-> "check", ctx |-> ctx, result |-> check(ctx),
                resource_type |-> TypeAfterCheck(ctx)]
    /\ managed' = NoManagerCall
    /\ evaluated' = NoEvaluation
    /\ UNCHANGED <<grant_calls, middleware>>
    /\ UNCHANGED <<platform_admins, tenant_roles, tenant_users, resource_permissions,
                   folders, documents, now, moves, role_deletes>>

CallCheckFailing(ctx, fault) ==
    /\ last' = [op |-> "check, a read failing", ctx |-> ctx, fault |-> fault,
                body |-> CheckBody(ctx, fault),
                result |-> check_failing(ctx, fault),
                silent |-> check_silent_failing(ctx, fault),
                resource_type |-> ctx.resource_type]
    /\ managed' = NoManagerCall
    /\ evaluated' = NoEvaluation
    /\ UNCHANGED <<grant_calls, middleware>>
    /\ UNCHANGED <<platform_admins, tenant_roles, tenant_users, resource_permissions,
                   folders, documents, now, moves, role_deletes>>

CallGetUserPermission(ctx) ==
    /\ last' = [op |-> "get_user_permission", ctx |-> ctx,
                result |-> get_user_permission(ctx),
                resource_type |-> TypeAfterGet(ctx)]
    /\ managed' = NoManagerCall
    /\ evaluated' = NoEvaluation
    /\ UNCHANGED <<grant_calls, middleware>>
    /\ UNCHANGED <<platform_admins, tenant_roles, tenant_users, resource_permissions,
                   folders, documents, now, moves, role_deletes>>

\* check or get_user_permission called by the request that follows a call of
\* the PermissionManager, whose outcome stays on record
CallAfterManager(op, ctx) ==
    /\ last' = [op |-> op, ctx |-> ctx,
                result |-> IF op = "check" THEN check(ctx) ELSE get_user_permission(ctx),
                resource_type |-> IF op = "check" THEN TypeAfterCheck(ctx)
                                  ELSE TypeAfterGet(ctx)]
    /\ evaluated' = NoEvaluation
    /\ UNCHANGED <<managed, grant_calls, middleware>>
    /\ UNCHANGED <<platform_admins, tenant_roles, tenant_users, resource_permissions,
                   folders, documents, now, moves, role_deletes>>

\* _get_parent_resource called on its own
CallGetParentResource(resource_type, resource_id) ==
    /\ evaluated' = [op |-> "_get_parent_resource", arg |-> <<resource_type, resource_id>>,
                     flag |-> FALSE, text |-> <<>>,
                     value |-> _get_parent_resource(resource_type, resource_id)]
    /\ last' = NoCall
    /\ managed' = NoManagerCall
    /\ UNCHANGED <<store, now, moves, role_deletes, grant_calls, middleware>>

\* the PermissionContext object as a call leaves it: line 212 assigns
\* ctx.resource_type, every other attribute keeps its value
CtxAfter(ctx, resource_type) == [ctx EXCEPT !.resource_type = resource_type]

\* a caller passes one PermissionContext object to check() two times
CallCheckTwice(ctx) ==
    /\ last' = [op |-> "check twice", ctx |-> ctx, result |-> check(ctx),
                resource_type |-> TypeAfterCheck(ctx),
                again |-> check(CtxAfter(ctx, TypeAfterCheck(ctx)))]
    /\ managed' = NoManagerCall
    /\ evaluated' = NoEvaluation
    /\ UNCHANGED <<grant_calls, middleware>>
    /\ UNCHANGED <<platform_admins, tenant_roles, tenant_users, resource_permissions,
                   folders, documents, now, moves, role_deletes>>

\* a caller passes one PermissionContext object to get_user_permission() two times
CallGetUserPermissionTwice(ctx) ==
    /\ last' = [op |-> "get_user_permission twice", ctx |-> ctx,
                result |-> get_user_permission(ctx),
                resource_type |-> TypeAfterGet(ctx),
                again |-> get_user_permission(CtxAfter(ctx, TypeAfterGet(ctx)))]
    /\ managed' = NoManagerCall
    /\ evaluated' = NoEvaluation
    /\ UNCHANGED <<grant_calls, middleware>>
    /\ UNCHANGED <<platform_admins, tenant_roles, tenant_users, resource_permissions,
                   folders, documents, now, moves, role_deletes>>

\* check, statement by statement.  Each db.query(...).first() and .all() of
\* the call is a statement of its own on the session's connection, and the
\* engine (api/db.py lines 10-16) sets no isolation level: under PostgreSQL's
\* READ COMMITTED a statement reads the rows committed when it starts.  `run`
\* is the call between two statements: pc names the next read, tenant_user is
\* the object of line 79, resource_type, resource_id and depth are the loop's,
\* and atomic collects what check(ctx) gives on each state of the store the
\* call has seen pass.  The role of tenant_user is loaded at line 80 and kept
\* on the object; the role rows are read here when the default is taken.
CheckAfterRead(run) ==
    LET ctx == run.ctx
        next(r, pc) == [r EXCEPT !.pc = pc, !.atomic = @ \cup {check(ctx)}]
        done(r, result) ==
            [next(r, "done") EXCEPT !.op = "check, read by read", !.result = result]
        decide(r, user_perm) ==
            done(r, IF has_permission(user_perm, ctx.required_permission)
                    THEN ReturnTrue
                    ELSE RaiseHTTP(HTTP_403_FORBIDDEN, "Permission denied"))
        tenant_user == _get_tenant_user(ctx.user_id, ctx.tenant_id)
        permissions == _query_resource_permissions(
            ctx.tenant_id, run.resource_type, run.resource_id, ctx.user_id,
            run.tenant_user)
        parent_resource == _get_parent_resource(run.resource_type, run.resource_id)
    IN  CASE run.pc = "platform_admin" ->
                IF _is_platform_admin(ctx.user_id) THEN done(run, ReturnTrue)
                ELSE next(run, "membership")
          [] run.pc = "membership" ->
                IF ~_belongs_to_tenant(ctx.user_id, ctx.tenant_id)
                THEN done(run, RaiseHTTP(HTTP_403_FORBIDDEN,
                                         "Access denied: user not in tenant"))
                ELSE next(run, "tenant_user")
          [] run.pc = "tenant_user" ->
                IF IsTenantAdminRow(tenant_user)
                THEN done([run EXCEPT !.tenant_user = tenant_user], ReturnTrue)
                ELSE next([run EXCEPT !.tenant_user = tenant_user], "grants")
          [] run.pc = "grants" ->
                IF run.depth >= max_depth \/ run.resource_id = <<>>
                THEN decide(run, RoleDefault(run.tenant_user))
                ELSE IF permissions # {} THEN decide(run, Max(permissions))
                ELSE next(run, "parent")
          [] run.pc = "parent" ->
                IF parent_resource.kind = "ValueError"
                THEN done(run, RaiseHTTP(HTTP_500_INTERNAL_SERVER_ERROR,
                                         "Permission check failed"))
                ELSE IF parent_resource.kind = "none"
                THEN decide(run, RoleDefault(run.tenant_user))
                ELSE next([run EXCEPT !.resource_type = parent_resource.type,
                                      !.resource_id = parent_resource.id,
                                      !.depth = @ + 1], "grants")

\* check(ctx) is called and makes its first read (line 66)
check_begin(ctx) ==
    /\ last.op # "check, reading"
    /\ last' = CheckAfterRead(
           [op |-> "check, reading", ctx |-> ctx, result |-> Return(0),
            resource_type |-> ctx.resource_type, pc |-> "platform_admin",
            tenant_user |-> {}, resource_id |-> ctx.resource_id, depth |-> 0,
            atomic |-> {}])
    /\ managed' = NoManagerCall
    /\ evaluated' = NoEvaluation
    /\ UNCHANGED <<store, now, moves, role_deletes, grant_calls, middleware>>

\* the call makes its next read
check_continue ==
    /\ last.op = "check, reading"
    /\ last' = CheckAfterRead(last)
    /\ managed' = NoManagerCall
    /\ evaluated' = NoEvaluation
    /\ UNCHANGED <<store, now, moves, role_deletes, grant_calls, middleware>>

----------------------------------------------------------------------------
(* The database the operations start from.  Tenants 1 (the default tenant)  *)
(* and 2 exist with the system roles create_tenant gives a tenant, and user *)
(* 3 administers both.                                                      *)

TenantIds == {DEFAULT_TENANT_ID, 2}

AdminRoleId(tenant_id) == 10 * tenant_id + 1
MemberRoleId(tenant_id) == 10 * tenant_id + 2
GuestRoleId(tenant_id) == 10 * tenant_id + 3
CustomRoleId(tenant_id) == 10 * tenant_id + 4

\* routes/tenants.py create_tenant: default_roles
SystemRoles(tenant_id) ==
    {TenantRoleRow(AdminRoleId(tenant_id), tenant_id, "tenant_admin", OWNER, TRUE),
     TenantRoleRow(MemberRoleId(tenant_id), tenant_id, "member", EDITOR, TRUE),
     TenantRoleRow(GuestRoleId(tenant_id), tenant_id, "guest", READER, TRUE)}

\* the administrator who calls the management routes
Callers == {3}
Operator == CHOOSE u \in Callers : TRUE

OperatorRows ==
    {TenantUserRow(t, Operator, AdminRoleId(t), NULL, "active") : t \in TenantIds}

Str1 == IntToStr(1)
Str2 == IntToStr(2)

\* fix_migration.py: the default tenant's slug; the other tenant has its own
SlugDefault == <<"d">>
SlugOther == <<"o">>
TenantSlug(tenant_id) == IF tenant_id = DEFAULT_TENANT_ID THEN SlugDefault ELSE SlugOther

ActiveTenants ==
    {TenantRow(t, TenantSlug(t), "active", NULL_TIME, NULL_TIME) : t \in TenantIds}

\* no PermissionManager call under way, no request in the middleware
Quiet ==
    /\ managed = NoManagerCall
    /\ grant_calls = {}
    /\ requests = <<>>
    /\ evaluated = NoEvaluation
    /\ _tenant_context = <<>>
    /\ _tenant_user_context = <<>>

\* Grant rows the database holds when the operations start.  A grant is given
\* as <<key, permission, expires_at>>; the rows of one table have distinct
\* keys (the unique index idx_resource_permission) and distinct ids.
RECURSIVE SetToSeq(_)
SetToSeq(S) ==
    IF S = {} THEN <<>>
    ELSE LET x == CHOOSE y \in S : TRUE IN <<x>> \o SetToSeq(S \ {x})

GrantId(grants, key) ==
    LET keys == SetToSeq({g[1] : g \in grants})
    IN  CHOOSE i \in 1..Len(keys) : keys[i] = key

RECURSIVE GrantSetsUpTo(_, _)
GrantSetsUpTo(grants, n) ==
    IF n = 0 THEN {{}}
    ELSE LET smaller == GrantSetsUpTo(grants, n - 1)
         IN  smaller \cup
             UNION {{S \cup {g} : g \in {h \in grants : \A x \in S : x[1] # h[1]}} :
                       S \in smaller}

StoredGrant(grants, g, granted_by) ==
    [ResourcePermissionRow(g[1][1], g[1][2], g[1][3], g[1][4], g[1][5], g[2],
                           granted_by, g[3])
        EXCEPT !.id = GrantId(grants, g[1])]

GrantTables(grants, granted_by, n) ==
    {{StoredGrant(grants, g, granted_by) : g \in S} : S \in GrantSetsUpTo(grants, n)}

----------------------------------------------------------------------------
(* Spec: platform admins, memberships and tenant admins                     *)

MaxGrants == 1

ScriptUsers == {2}
MemberUsers == {1}
InviteRoles == {"tenant_admin", "member"}
Statuses == {"active", "disabled"}

\* grants on document 1 and on its folder, to user 1, live and expired
TrustGrantKeys ==
    {<<t, rt, Str1, USER, Str1>> : t \in TenantIds, rt \in {DOCUMENT, FOLDER}}
TrustGrantValues == {<<READ, NULL_TIME>>, <<OWNER, NULL_TIME>>, <<OWNER, 0>>}
TrustGrants == {<<k, v[1], v[2]>> : k \in TrustGrantKeys, v \in TrustGrantValues}

QueryUsers == {1, 2}
QueryTenants == {UuidStr(1), UuidStr(2), UuidStr(9)}
Required == {READ, WRITE}
TrustQueries ==
    {PermissionContext(u, t, DOCUMENT, Str1, r) :
        u \in QueryUsers, t \in QueryTenants, r \in Required}
\* get_user_permission does not read ctx.required_permission
TrustGetQueries == {ctx \in TrustQueries : ctx.required_permission = READ}

Init ==
    /\ platform_admins = {}
    /\ tenant_roles = SystemRoles(1) \cup SystemRoles(2)
    /\ tenant_users = OperatorRows
    /\ resource_permissions \in GrantTables(TrustGrants, Operator, MaxGrants)
    /\ folders = {FolderRow(1, NULL)}
    /\ documents = {DocumentRow(1, 1)}
    /\ now = 1
    /\ moves = {}
    /\ role_deletes = {}
    /\ last = NoCall
    /\ tenants = ActiveTenants
    /\ Quiet

FixAdmin == \E u \in ScriptUsers : fix_admin_permissions(u)

CreateOps == \E u \in ScriptUsers : create_ops_user(u)

Invite ==
    \E t \in TenantIds, u \in MemberUsers, rn \in InviteRoles :
        invite_user_to_tenant(t, Operator, u, rn, NULL)

Remove == \E t \in TenantIds, u \in MemberUsers : remove_user(t, Operator, u)

SetStatus ==
    \E t \in TenantIds, u \in MemberUsers, st \in Statuses :
        update_user_status(t, Operator, u, st)

SetRole ==
    \E t \in TenantIds, u \in MemberUsers, rn \in InviteRoles :
        update_user_role(t, Operator, u, rn)

Grant ==
    \E k \in TrustGrantKeys, v \in TrustGrantValues :
        grant_permission(k[1], k[2], k[3], k[4], k[5], v[1], Operator, v[2])

Revoke ==
    \E k \in TrustGrantKeys :
        /\ \E p \in resource_permissions : SameKey(p, k[1], k[2], k[3], k[4], k[5])
        /\ revoke_permission(k[1], k[2], k[3], k[4], k[5])

Check == \E ctx \in TrustQueries : CallCheck(ctx)

GetPermission == \E ctx \in TrustGetQueries : CallGetUserPermission(ctx)

Next ==
    \/ FixAdmin
    \/ CreateOps
    \/ Invite
    \/ Remove
    \/ SetStatus
    \/ SetRole
    \/ Grant
    \/ Revoke
    \/ Check
    \/ GetPermission

Spec == Init /\ [][Next]_vars

----------------------------------------------------------------------------
(* Properties.  Each is about the outcome of the last PermissionChecker     *)
(* call, read against the tables as they were when the call ran (every      *)
(* other operation clears `last`).                                          *)

Called(op) == last.op = op

\* the principal of the last call is registered as a platform admin
HasPlatformRow(user_id) == \E a \in platform_admins : a.user_id = user_id

\* the active memberships of the user in the tenant named by the text tenant_id
ActiveRows(user_id, tenant_id) ==
    {tu \in tenant_users : /\ tu.user_id = user_id
                           /\ tenant_id = UuidStr(tu.tenant_id)
                           /\ tu.status = "active"}

RoleNameIs(rows, name) ==
    \E tu \in rows : \E r \in tenant_roles : r.id = tu.role_id /\ r.name = name

NotInTenant == RaiseHTTP(403, "Access denied: user not in tenant")

\* a live direct grant of `permission` to the user on the target of the call
DirectGrantOnTarget(ctx, permission) ==
    \E p \in resource_permissions :
        /\ UuidStr(p.tenant_id) = ctx.tenant_id
        /\ p.resource_type = ctx.resource_type
        /\ p.resource_id = ctx.resource_id
        /\ p.grantee_type = USER
        /\ p.grantee_id = IntToStr(ctx.user_id)
        /\ p.permission = permission
        /\ p.expires_at = NULL_TIME

\* C1: a principal who is no platform admin and has no active membership in
\* the tenant is refused by check with 403 "user not in tenant", for every
\* resource and required bitmask and whatever grants exist.
C1_NonMemberForbidden ==
    (/\ Called("check")
     /\ ~HasPlatformRow(last.ctx.user_id)
     /\ ActiveRows(last.ctx.user_id, last.ctx.tenant_id) = {})
        => last.result = NotInTenant

\* C1 witness: user 1 holds a disabled membership and a live direct owner
\* grant on the target, and check refused with "user not in tenant".
C1_Witness ==
    /\ Called("check")
    /\ ~HasPlatformRow(last.ctx.user_id)
    /\ \E tu \in tenant_users : /\ tu.user_id = last.ctx.user_id
                                /\ UuidStr(tu.tenant_id) = last.ctx.tenant_id
                                /\ tu.status = "disabled"
    /\ DirectGrantOnTarget(last.ctx, OWNER)
    /\ last.result = NotInTenant

\* C2: check succeeds exactly when has_permission(get_user_permission(ctx),
\* required) holds, for every principal, also one without active membership.
C2_CheckAgreesWithGetUserPermission ==
    Called("check") =>
        LET effective == get_user_permission(last.ctx)
        IN  (last.result = ReturnTrue)
                <=> (/\ effective.kind = "return"
                     /\ has_permission(effective.value, last.ctx.required_permission))

\* C3: for a platform super-admin check succeeds for every tenant, resource
\* and required bitmask, and get_user_permission returns OWNER (255).
C3_SuperAdminBypass ==
    (\E a \in platform_admins : a.user_id = last.ctx.user_id /\ a.role = SUPER_ADMIN)
        => /\ Called("check") => last.result = ReturnTrue
           /\ Called("get_user_permission") => last.result = Return(255)

\* C3 witness: a super-admin without membership in a tenant id that matches
\* no tenant was granted WRITE.
C3_Witness ==
    /\ Called("check")
    /\ \E a \in platform_admins : a.user_id = last.ctx.user_id /\ a.role = SUPER_ADMIN
    /\ last.ctx.tenant_id = UuidStr(9)
    /\ \A tu \in tenant_users : tu.user_id = last.ctx.user_id => tu.tenant_id # 9
    /\ last.ctx.required_permission = WRITE
    /\ last.result = ReturnTrue

\* C4: an active member whose role is named tenant_admin passes check for
\* every resource and required bitmask of that tenant and has effective
\* permission 255, whatever grants exist; where the principal (no platform
\* admin) has no active tenant_admin membership in the tenant of the call, the
\* outcome is that of the membership check and the resource walk alone.
C4_TenantAdminBypassOwnTenant ==
    LET ctx == last.ctx
        rows == ActiveRows(ctx.user_id, ctx.tenant_id)
        walk == _get_resource_permission(ctx, rows).out
    IN  /\ RoleNameIs(rows, "tenant_admin") =>
              /\ Called("check") => last.result = ReturnTrue
              /\ Called("get_user_permission") => last.result = Return(255)
        /\ (~RoleNameIs(rows, "tenant_admin") /\ ~HasPlatformRow(ctx.user_id)) =>
              /\ (Called("check") /\ last.result = ReturnTrue) =>
                    /\ rows # {}
                    /\ walk.kind = "return"
                    /\ has_permission(walk.value, ctx.required_permission)
              /\ Called("get_user_permission") => last.result = walk

\* C4 witness: user 1, tenant admin of one tenant and plain member of the
\* other, holds only a READ grant on the target and was granted WRITE there.
C4_Witness ==
    /\ Called("check")
    /\ ~HasPlatformRow(last.ctx.user_id)
    /\ RoleNameIs(ActiveRows(last.ctx.user_id, last.ctx.tenant_id), "tenant_admin")
    /\ \E t \in QueryTenants :
          /\ t # last.ctx.tenant_id
          /\ RoleNameIs(ActiveRows(last.ctx.user_id, t), "member")
    /\ DirectGrantOnTarget(last.ctx, READ)
    /\ last.ctx.required_permission = WRITE
    /\ last.result = ReturnTrue

----------------------------------------------------------------------------
(* SpecResolve: resolution of the grants of one member.  User 1 is an       *)
(* active member of tenant 1 with role member and department 31; document   *)
(* 1 lies in folder 1, folder 1 in folder 2; document 2 lies in no folder.  *)

MaxResolveGrants == 2
MaxTime == 3

ResolveDepartment == CHOOSE d \in {31} : TRUE

StrAbc == <<"a", "b", "c">>
Str01 == <<"0", "1">>
Str9 == IntToStr(9)

\* grant requests that reach user 1: on the document, its folder, the
\* folder above, and on a resource id that is no number
ResolveKeys ==
    {<<1, DOCUMENT, Str1, USER, Str1>>,
     <<1, DOCUMENT, Str1, ROLE, UuidStr(MemberRoleId(1))>>,
     <<1, DOCUMENT, Str1, DEPARTMENT, UuidStr(ResolveDepartment)>>,
     <<1, FOLDER, Str1, USER, Str1>>,
     <<1, FOLDER, Str2, ROLE, UuidStr(MemberRoleId(1))>>}
\* 1, 33, 67 (read, write, comment), 128 and 255
ResolvePermissions == {READ, READER, BitOr(BitOr(READ, WRITE), COMMENT), EXPORT, OWNER}
ResolveExpiries == {NULL_TIME, 2}

\* grant requests that do not reach user 1 in tenant 1: another tenant,
\* another role
ForeignKeys ==
    {<<2, DOCUMENT, Str1, USER, Str1>>,
     <<1, DOCUMENT, Str1, ROLE, UuidStr(GuestRoleId(1))>>}

ResolveGrants ==
    {<<k, v, e>> : k \in ResolveKeys, v \in ResolvePermissions, e \in ResolveExpiries}
        \cup {<<k, OWNER, NULL_TIME>> : k \in ForeignKeys}
        \cup {<<<<1, DOCUMENT, StrAbc, USER, Str1>>, READ, e>> : e \in ResolveExpiries}

\* the grant requests made while the checks run
ResolveRegrants ==
    {<<<<1, DOCUMENT, Str1, USER, Str1>>, READ, NULL_TIME>>,
     <<<<1, FOLDER, Str1, USER, Str1>>, OWNER, 2>>}

ResolveTargets ==
    {<<DOCUMENT, Str1>>, <<DOCUMENT, Str01>>, <<DOCUMENT, Str2>>,
     <<DOCUMENT, StrAbc>>, <<FOLDER, Str1>>, <<DOCUMENT, Str9>>}
ResolveQueries ==
    {PermissionContext(1, UuidStr(1), t[1], t[2], r) : t \in ResolveTargets, r \in Required}
ResolveGetQueries == {ctx \in ResolveQueries : ctx.required_permission = READ}

InitResolve ==
    /\ platform_admins = {}
    /\ tenant_roles = SystemRoles(1) \cup SystemRoles(2)
    /\ tenant_users = OperatorRows \cup
          {TenantUserRow(1, 1, MemberRoleId(1), ResolveDepartment, "active")}
    /\ resource_permissions \in GrantTables(ResolveGrants, Operator, MaxResolveGrants)
    /\ folders = {FolderRow(1, 2), FolderRow(2, NULL)}
    /\ documents = {DocumentRow(1, 1), DocumentRow(2, NULL)}
    /\ now = 1
    /\ moves = {}
    /\ role_deletes = {}
    /\ last = NoCall
    /\ tenants = ActiveTenants
    /\ Quiet

ResolveGrant ==
    \E g \in ResolveRegrants :
        grant_permission(g[1][1], g[1][2], g[1][3], g[1][4], g[1][5], g[2], Operator, g[3])

ResolveRevoke ==
    \E p \in resource_permissions :
        revoke_permission(p.tenant_id, p.resource_type, p.resource_id,
                          p.grantee_type, p.grantee_id)

ResolveTick == now < MaxTime /\ Tick

ResolveCheck == \E ctx \in ResolveQueries : CallCheck(ctx)

ResolveGetPermission == \E ctx \in ResolveGetQueries : CallGetUserPermission(ctx)

NextResolve ==
    \/ ResolveGrant
    \/ ResolveRevoke
    \/ ResolveTick
    \/ ResolveCheck
    \/ ResolveGetPermission

SpecResolve == InitResolve /\ [][NextResolve]_vars

----------------------------------------------------------------------------
(* What the resolution rules say, stated on the tables directly.            *)

\* the caller is an active member, neither platform admin nor tenant admin
PlainMember(ctx) ==
    /\ ~HasPlatformRow(ctx.user_id)
    /\ ActiveRows(ctx.user_id, ctx.tenant_id) # {}
    /\ ~RoleNameIs(ActiveRows(ctx.user_id, ctx.tenant_id), "tenant_admin")

\* the grant names the principal: the user, the role or the department of
\* the active membership
Applies(p, ctx) ==
    /\ UuidStr(p.tenant_id) = ctx.tenant_id
    /\ \/ p.grantee_type = USER /\ p.grantee_id = IntToStr(ctx.user_id)
       \/ \E tu \in ActiveRows(ctx.user_id, ctx.tenant_id) :
              \/ p.grantee_type = ROLE /\ tu.role_id # NULL
                    /\ p.grantee_id = UuidStr(tu.role_id)
              \/ p.grantee_type = DEPARTMENT /\ tu.department_id # NULL
                    /\ p.grantee_id = UuidStr(tu.department_id)

\* no expiry, or an expiry not earlier than the evaluation time
Live(p) == p.expires_at = NULL_TIME \/ p.expires_at >= now

\* the bitmasks of the live grants on one resource that name the principal
GrantsAt(ctx, resource_type, resource_id) ==
    {p.permission : p \in {q \in resource_permissions :
        /\ Applies(q, ctx) /\ Live(q)
        /\ q.resource_type = resource_type /\ q.resource_id = resource_id}}

Largest(S) == CHOOSE x \in S : \A y \in S : x >= y

\* the stored parent of a resource: the folder of the document, the parent
\* of the folder; <<>> where there is none
StoredParent(r) ==
    LET n == StrToInt(r[2])
        above == IF r[1] = DOCUMENT
                 THEN {d.folder_id : d \in {x \in documents : n.ok /\ x.id = n.value}}
                 ELSE IF r[1] = FOLDER
                 THEN {f.parent_id : f \in {x \in folders : n.ok /\ x.id = n.value}}
                 ELSE {}
    IN  IF above = {} \/ above = {NULL} THEN <<>>
        ELSE <<FOLDER, IntToStr(CHOOSE a \in above : TRUE)>>

RECURSIVE ChainFrom(_, _)
\* the target followed by its ancestors, n resources at most
ChainFrom(r, n) ==
    IF n = 0 \/ r = <<>> THEN <<>>
    ELSE <<r>> \o ChainFrom(StoredParent(r), n - 1)

\* the first k resources of the chain carry no live applicable grant
NoneBelow(ctx, chain, k) ==
    \A j \in 1..(k - 1) : GrantsAt(ctx, chain[j][1], chain[j][2]) = {}

Denied == RaiseHTTP(403, "Permission denied")

\* the call answered with bitmask v: get_user_permission returned it, check
\* decided by has_permission on it
AnsweredWith(v) ==
    /\ Called("get_user_permission") => last.result = Return(v)
    /\ Called("check") =>
          last.result = IF BitAnd(v, last.ctx.required_permission)
                              = last.ctx.required_permission
                        THEN ReturnTrue ELSE Denied

\* C5: when the target itself carries a live grant that names the principal,
\* the result is the largest bitmask among the target's own such grants,
\* whatever the ancestors carry; a read grant on the document under an owner
\* grant on its folder gives 1, and write is denied.
C5_StopAtFirstHit ==
    LET ctx == last.ctx
        own == GrantsAt(ctx, ctx.resource_type, ctx.resource_id)
    IN  (~Called("none") /\ PlainMember(ctx) /\ own # {}) => AnsweredWith(Largest(own))

\* C5 witness: document 1 carries a read grant, its folder an owner grant,
\* and check for write on the document was denied.
C5_Witness ==
    /\ Called("check")
    /\ PlainMember(last.ctx)
    /\ last.ctx.resource_type = DOCUMENT /\ last.ctx.resource_id = Str1
    /\ last.ctx.required_permission = WRITE
    /\ GrantsAt(last.ctx, DOCUMENT, Str1) = {READ}
    /\ GrantsAt(last.ctx, FOLDER, Str1) = {OWNER}
    /\ last.result = Denied

\* C6: for a plain member, when the target and the chain elements below the
\* k-th carry no live applicable grant and the k-th element (k <= 10) does,
\* the result is resolved from the k-th element's grants.
C6_InheritsFromNearestAncestor ==
    LET ctx == last.ctx
        chain == ChainFrom(<<ctx.resource_type, ctx.resource_id>>, 10)
    IN  (~Called("none") /\ PlainMember(ctx)) =>
            \A k \in 2..Len(chain) :
                (NoneBelow(ctx, chain, k) /\ GrantsAt(ctx, chain[k][1], chain[k][2]) # {})
                    => AnsweredWith(Largest(GrantsAt(ctx, chain[k][1], chain[k][2])))

\* C6 witness: document 1 carries no grant, its folder a reader grant for
\* the principal, whose role default is editor; the result is reader.
C6_Witness ==
    /\ Called("get_user_permission")
    /\ PlainMember(last.ctx)
    /\ last.ctx.resource_type = DOCUMENT /\ last.ctx.resource_id = Str1
    /\ GrantsAt(last.ctx, DOCUMENT, Str1) = {}
    /\ GrantsAt(last.ctx, FOLDER, Str1) = {READER}
    /\ \A tu \in ActiveRows(last.ctx.user_id, last.ctx.tenant_id) :
          \E r \in tenant_roles : r.id = tu.role_id /\ r.permissions = EDITOR
    /\ last.result = Return(33)

\* C7: the bitmask of the first level that carries live applicable grants is
\* one of their bitmasks and is numerically not below any of them; it is not
\* their bitwise OR (33 and 67 give 67; 128 and 67 give 128, without read).
C7_LargestNotUnion ==
    LET ctx == last.ctx
        chain == ChainFrom(<<ctx.resource_type, ctx.resource_id>>, 10)
    IN  (~Called("none") /\ PlainMember(ctx)) =>
            \A k \in 1..Len(chain) :
                LET S == GrantsAt(ctx, chain[k][1], chain[k][2])
                IN  (NoneBelow(ctx, chain, k) /\ S # {}) =>
                        \E v \in S :
                            /\ \A s \in S : v >= s
                            /\ AnsweredWith(v)
                            /\ ({33, 67} \subseteq S /\ S \subseteq 0..67) => v = 67
                            /\ ({128, 67} \subseteq S /\ S \subseteq 0..128) => v = 128

\* C7 witness: the document carries 128 and 67 through two grantee kinds, and
\* check for read was denied on the resulting 128.
C7_Witness ==
    /\ Called("check")
    /\ PlainMember(last.ctx)
    /\ last.ctx.required_permission = READ
    /\ \E p, q \in resource_permissions :
          /\ p.grantee_type # q.grantee_type
          /\ p.permission = 128 /\ q.permission = 67
          /\ \A g \in {p, q} :
                /\ Applies(g, last.ctx) /\ Live(g)
                /\ g.resource_type = last.ctx.resource_type
                /\ g.resource_id = last.ctx.resource_id
    /\ GrantsAt(last.ctx, last.ctx.resource_type, last.ctx.resource_id) = {128, 67}
    /\ last.result = Denied

\* the default bitmask of the role of the active membership, 0 without role
RoleDefaultOf(ctx) ==
    LET defaults == {r.permissions : r \in {x \in tenant_roles :
                        \E tu \in ActiveRows(ctx.user_id, ctx.tenant_id) :
                            tu.role_id # NULL /\ x.id = tu.role_id}}
    IN  IF defaults = {} THEN 0 ELSE CHOOSE d \in defaults : TRUE

\* the grants on resource r that name the principal and expired before now
ExpiredAt(ctx, r) ==
    {p \in resource_permissions :
        /\ Applies(p, ctx)
        /\ p.resource_type = r[1] /\ p.resource_id = r[2]
        /\ p.expires_at # NULL_TIME /\ p.expires_at < now}

\* C8: a grant that expired before the evaluation time never contributes: a
\* level whose applicable grants are all expired counts as empty and the walk
\* goes on to the parent; a principal whose only applicable grants are
\* expired gets the role default; a grant without expiry or with an expiry
\* not earlier than the evaluation time is included.
C8_ExpiredGrantsExcluded ==
    LET ctx == last.ctx
        chain == ChainFrom(<<ctx.resource_type, ctx.resource_id>>, 10)
    IN  (~Called("none") /\ PlainMember(ctx)) =>
            /\ \A k \in 1..Len(chain) :
                  (/\ \E j \in 1..k : ExpiredAt(ctx, chain[j]) # {}
                   /\ NoneBelow(ctx, chain, k)
                   /\ GrantsAt(ctx, chain[k][1], chain[k][2]) # {})
                      => AnsweredWith(Largest(GrantsAt(ctx, chain[k][1], chain[k][2])))
            /\ (/\ \E j \in 1..Len(chain) : ExpiredAt(ctx, chain[j]) # {}
                /\ NoneBelow(ctx, chain, Len(chain) + 1))
                  => AnsweredWith(RoleDefaultOf(ctx))
            /\ \A p \in resource_permissions :
                  (/\ Applies(p, ctx)
                   /\ p.resource_type = ctx.resource_type
                   /\ p.resource_id = ctx.resource_id
                   /\ (p.expires_at = NULL_TIME \/ ~(p.expires_at < now)))
                      => \E v \in p.permission..255 : AnsweredWith(v)

\* C8 witness: the document carries only an expired owner grant, its folder a
\* live read grant, and the call answered with the folder's grant.
C8_Witness ==
    /\ Called("get_user_permission")
    /\ PlainMember(last.ctx)
    /\ last.ctx.resource_type = DOCUMENT /\ last.ctx.resource_id = Str1
    /\ \E p \in ExpiredAt(last.ctx, <<DOCUMENT, Str1>>) : p.permission = OWNER
    /\ GrantsAt(last.ctx, DOCUMENT, Str1) = {}
    /\ GrantsAt(last.ctx, FOLDER, Str1) = {READ}
    /\ last.result = Return(1)

\* the identifier is the key of a stored document or folder, as the parent
\* lookup compares it
Stored(resource_type, resource_id) ==
    LET n == StrToInt(resource_id)
    IN  /\ n.ok
        /\ \/ resource_type = DOCUMENT /\ \E d \in documents : d.id = n.value
           \/ resource_type = FOLDER /\ \E f \in folders : f.id = n.value

----------------------------------------------------------------------------
(* SpecRoles: the role default.  The administrator creates, changes and     *)
(* deletes a custom role of tenant 1 and moves user 1 between roles; a      *)
(* delete_role request whose users_with_role count ran before the role was  *)
(* assigned commits after it and leaves the membership without role.        *)

MaxRoleGrants == 1

RoleNames == {"member", "guest", "custom"}
RolePermissions == {NONE, READ, CONTRIBUTOR}

RolesGrants ==
    {<<<<1, DOCUMENT, Str1, USER, Str1>>, WRITE>>,
     <<<<1, FOLDER, Str1, ROLE, UuidStr(CustomRoleId(1))>>, READER>>}

RolesStored == {<<g[1], g[2], NULL_TIME>> : g \in RolesGrants}

RolesTargets == {<<DOCUMENT, Str1>>, <<DOCUMENT, Str2>>, <<DOCUMENT, StrAbc>>, <<FOLDER, Str1>>}
RolesQueries ==
    {PermissionContext(1, UuidStr(1), t[1], t[2], r) : t \in RolesTargets, r \in Required}
RolesGetQueries == {ctx \in RolesQueries : ctx.required_permission = READ}

InitRoles ==
    /\ platform_admins = {}
    /\ tenant_roles = SystemRoles(1) \cup SystemRoles(2)
    /\ tenant_users = OperatorRows \cup {TenantUserRow(1, 1, MemberRoleId(1), NULL, "active")}
    /\ resource_permissions \in GrantTables(RolesStored, Operator, MaxRoleGrants)
    /\ folders = {FolderRow(1, NULL)}
    /\ documents = {DocumentRow(1, 1), DocumentRow(2, NULL)}
    /\ now = 1
    /\ moves = {}
    /\ role_deletes = {}
    /\ last = NoCall
    /\ tenants = ActiveTenants
    /\ Quiet

RolesCreate ==
    \E perms \in RolePermissions :
        create_role(1, Operator, CustomRoleId(1), "custom", perms)

RolesUpdate ==
    \E perms \in RolePermissions : update_role(1, Operator, CustomRoleId(1), perms)

RolesSetRole == \E rn \in RoleNames : update_user_role(1, Operator, 1, rn)

RolesDeleteValidate == delete_role_validate(1, Operator, CustomRoleId(1))

RolesDeleteCommit == delete_role_commit(CustomRoleId(1))

RolesGrant ==
    \E g \in RolesGrants :
        grant_permission(g[1][1], g[1][2], g[1][3], g[1][4], g[1][5], g[2],
                         Operator, NULL_TIME)

RolesRevoke ==
    \E p \in resource_permissions :
        revoke_permission(p.tenant_id, p.resource_type, p.resource_id,
                          p.grantee_type, p.grantee_id)

RolesCheck == \E ctx \in RolesQueries : CallCheck(ctx)

RolesGetPermission == \E ctx \in RolesGetQueries : CallGetUserPermission(ctx)

NextRoles ==
    \/ RolesCreate
    \/ RolesUpdate
    \/ RolesSetRole
    \/ RolesDeleteValidate
    \/ RolesDeleteCommit
    \/ RolesGrant
    \/ RolesRevoke
    \/ RolesCheck
    \/ RolesGetPermission

SpecRoles == InitRoles /\ [][NextRoles]_vars

\* C9: when neither the target nor any examined ancestor carries a live
\* grant naming the principal, a member gets the default bitmask of the
\* membership's role, 0 when the membership has no role, and check decides
\* by has_permission on that value.
C9_RoleDefaultWhenNoGrant ==
    LET ctx == last.ctx
        chain == ChainFrom(<<ctx.resource_type, ctx.resource_id>>, 10)
    IN  (/\ ~Called("none")
         /\ PlainMember(ctx)
         /\ \A k \in 1..Len(chain) : GrantsAt(ctx, chain[k][1], chain[k][2]) = {})
            => /\ AnsweredWith(RoleDefaultOf(ctx))
               /\ (\A tu \in ActiveRows(ctx.user_id, ctx.tenant_id) : tu.role_id = NULL)
                      => AnsweredWith(0)

\* C9 witness: the membership of user 1 lost its role, nothing is granted on
\* document 1 or its folder, and check for read was denied on bitmask 0.
C9_Witness ==
    /\ Called("check")
    /\ PlainMember(last.ctx)
    /\ \A tu \in ActiveRows(last.ctx.user_id, last.ctx.tenant_id) : tu.role_id = NULL
    /\ last.ctx.resource_type = DOCUMENT /\ last.ctx.resource_id = Str1
    /\ last.ctx.required_permission = READ
    /\ GrantsAt(last.ctx, DOCUMENT, Str1) = {}
    /\ GrantsAt(last.ctx, FOLDER, Str1) = {}
    /\ RoleDefaultOf(last.ctx) = 0
    /\ last.result = Denied

----------------------------------------------------------------------------
(* SpecDeep: deep and cyclic hierarchies.  Folders 1..ChainLength form a    *)
(* chain (folder i lies in folder i + 1), document 1 lies in folder 1;      *)
(* folders 21 and 22 start as roots, document 2 lies in folder 21.  Two     *)
(* update_folder requests that both passed the circular-reference check     *)
(* before either committed leave 21 and 22 as each other's parent.          *)

ChainLength == 12
MaxDeepGrants == 2

SideFolders == {21, 22}

\* update_folder requests: (folder_id, parent_id)
DeepMoves == {<<21, 22>>, <<22, 21>>, <<ChainLength, 21>>}

DeepGrantedFolders == {9, 10, 11, 12, 22}
\* below the role default of user 1 (guest, 33)
DeepPermissions == {READ}

DeepStored ==
    {<<<<1, FOLDER, IntToStr(f), USER, Str1>>, v, NULL_TIME>> :
        f \in DeepGrantedFolders, v \in DeepPermissions}

DeepTargets ==
    {<<DOCUMENT, Str1>>, <<DOCUMENT, Str2>>, <<DOCUMENT, StrAbc>>,
     <<FOLDER, Str1>>, <<FOLDER, Str2>>, <<FOLDER, IntToStr(3)>>}
DeepQueries ==
    {PermissionContext(1, UuidStr(1), t[1], t[2], r) : t \in DeepTargets, r \in Required}
DeepGetQueries == {ctx \in DeepQueries : ctx.required_permission = READ}

InitDeep ==
    /\ platform_admins = {}
    /\ tenant_roles = SystemRoles(1) \cup SystemRoles(2)
    /\ tenant_users = OperatorRows \cup {TenantUserRow(1, 1, GuestRoleId(1), NULL, "active")}
    /\ resource_permissions \in GrantTables(DeepStored, Operator, MaxDeepGrants)
    /\ folders = {FolderRow(i, IF i < ChainLength THEN i + 1 ELSE NULL) : i \in 1..ChainLength}
                    \cup {FolderRow(i, NULL) : i \in SideFolders}
    /\ documents = {DocumentRow(1, 1), DocumentRow(2, 21)}
    /\ now = 1
    /\ moves = {}
    /\ role_deletes = {}
    /\ last = NoCall
    /\ tenants = ActiveTenants
    /\ Quiet

DeepMoveValidate == \E m \in DeepMoves : update_folder_validate(m[1], m[2])

DeepMoveCommit == \E m \in moves : update_folder_commit(m)

DeepGrant ==
    \E f \in DeepGrantedFolders, v \in DeepPermissions :
        grant_permission(1, FOLDER, IntToStr(f), USER, Str1, v, Operator, NULL_TIME)

DeepRevoke ==
    \E p \in resource_permissions :
        revoke_permission(p.tenant_id, p.resource_type, p.resource_id,
                          p.grantee_type, p.grantee_id)

DeepCheck == \E ctx \in DeepQueries : CallCheck(ctx)

DeepGetPermission == \E ctx \in DeepGetQueries : CallGetUserPermission(ctx)

NextDeep ==
    \/ DeepMoveValidate
    \/ DeepMoveCommit
    \/ DeepGrant
    \/ DeepRevoke
    \/ DeepCheck
    \/ DeepGetPermission

SpecDeep == InitDeep /\ [][NextDeep]_vars

\* some folder is its own ancestor
OnCycle(f) ==
    LET chain == ChainFrom(<<FOLDER, IntToStr(f)>>, Cardinality(folders) + 1)
    IN  \E k \in 2..Len(chain) : chain[k] = chain[1]

\* C10: for every parent relation, cyclic ones included, the walk ends
\* having examined the target and at most 9 ancestors: the answer comes from
\* the first of these 10 resources that carries a live applicable grant, and
\* is the role default when none of them does, whatever is granted on
\* ancestors further up.
C10_WalkBoundedByTenLevels ==
    LET ctx == last.ctx
        chain == ChainFrom(<<ctx.resource_type, ctx.resource_id>>, 10)
    IN  (~Called("none") /\ PlainMember(ctx)) =>
            /\ Len(chain) <= 10
            /\ \A k \in 1..Len(chain) :
                  (NoneBelow(ctx, chain, k) /\ GrantsAt(ctx, chain[k][1], chain[k][2]) # {})
                      => AnsweredWith(Largest(GrantsAt(ctx, chain[k][1], chain[k][2])))
            /\ NoneBelow(ctx, chain, Len(chain) + 1) => AnsweredWith(RoleDefaultOf(ctx))

\* C10 witness: document 1 sits under more than 9 ancestors, the 10th
\* ancestor carries an applicable grant, folders 21 and 22 are each other's
\* parent, and the call on document 1 answered with the role default.
C10_Witness ==
    /\ Called("get_user_permission")
    /\ PlainMember(last.ctx)
    /\ last.ctx.resource_type = DOCUMENT /\ last.ctx.resource_id = Str1
    /\ OnCycle(21)
    /\ GrantsAt(last.ctx, FOLDER, IntToStr(10)) # {}
    /\ \A k \in 1..9 : GrantsAt(last.ctx, FOLDER, IntToStr(k)) = {}
    /\ RoleDefaultOf(last.ctx) \notin GrantsAt(last.ctx, FOLDER, IntToStr(10))
    /\ last.result = Return(RoleDefaultOf(last.ctx))


----------------------------------------------------------------------------
(* SpecGrants: PermissionManager's three operations, one call at a time     *)

MaxStoredGrants == 3

\* a document, another grantee on it, the folder it lies in, and the same
\* document id in the other tenant
GrantKeys ==
    {<<1, DOCUMENT, Str1, USER, Str1>>,
     <<1, DOCUMENT, Str1, USER, Str2>>,
     <<1, FOLDER, Str1, USER, Str1>>,
     <<2, DOCUMENT, Str1, USER, Str1>>}
GrantsPermissions == {READ, READER}
GrantsExpiries == {NULL_TIME, 2}
GrantsStored ==
    {<<k, v, e>> : k \in GrantKeys, v \in GrantsPermissions, e \in GrantsExpiries}

\* the administrators who grant
Grantors == {Operator, 4}
GrantorRows ==
    {TenantUserRow(t, u, AdminRoleId(t), NULL, "active") : t \in TenantIds, u \in Grantors}

GrantsResources == {<<k[1], k[2], k[3]>> : k \in GrantKeys}

InitGrants ==
    /\ platform_admins = {}
    /\ tenant_roles = SystemRoles(1) \cup SystemRoles(2)
    /\ tenant_users = GrantorRows
    /\ resource_permissions \in GrantTables(GrantsStored, Operator, MaxStoredGrants)
    /\ folders = {FolderRow(1, NULL)}
    /\ documents = {DocumentRow(1, 1)}
    /\ now = 1
    /\ moves = {}
    /\ role_deletes = {}
    /\ last = NoCall
    /\ tenants = ActiveTenants
    /\ Quiet

GrantsGrant ==
    \E k \in GrantKeys, v \in GrantsPermissions, by \in Grantors, e \in GrantsExpiries :
        grant_permission(k[1], k[2], k[3], k[4], k[5], v, by, e)

GrantsRevoke == \E k \in GrantKeys : revoke_permission(k[1], k[2], k[3], k[4], k[5])

GrantsList == \E r \in GrantsResources : list_resource_permissions(r[1], r[2], r[3])

NextGrants ==
    \/ GrantsGrant
    \/ GrantsRevoke
    \/ GrantsList

SpecGrants == InitGrants /\ [][NextGrants]_vars

KeyOf(p) == <<p.tenant_id, p.resource_type, p.resource_id, p.grantee_type, p.grantee_id>>

WithKey(table, key) == {p \in table : KeyOf(p) = key}

\* C11: after any sequence of grant and revoke calls the table holds at most
\* one grant per (tenant, resource type, resource id, grantee type, grantee id);
\* a grant call on a key that has a record keeps the record's identity and
\* leaves it with the call's bitmask, granted-by and expiry (NULL_TIME when the
\* call gives none) and leaves every other record alone; and
\* list_resource_permissions returns exactly one entry for each key stored on
\* the resource.
C11_OneGrantPerKey ==
    [][ /\ \A p, q \in resource_permissions' : KeyOf(p) = KeyOf(q) => p = q
        /\ (managed'.op = "grant_permission"
                /\ WithKey(resource_permissions, managed'.key) # {})
           => \E old \in WithKey(resource_permissions, managed'.key) :
                 LET new == [old EXCEPT !.permission = managed'.args[1],
                                        !.granted_by = managed'.args[2],
                                        !.expires_at = managed'.args[3]]
                 IN  /\ managed'.kind = "return"
                     /\ managed'.rows = {new}
                     /\ new.id = old.id
                     /\ resource_permissions' =
                           (resource_permissions \ {old}) \cup {new}
        /\ managed'.op = "list_resource_permissions"
           => \A p \in resource_permissions' :
                 <<p.tenant_id, p.resource_type, p.resource_id>> = managed'.key
                 => Cardinality(WithKey(managed'.rows, KeyOf(p))) = 1
      ]_vars

\* a grant call by user 4 has cleared the expiry of a stored record, and the
\* record is listed next to another grantee's
C11_Witness ==
    /\ managed.op = "list_resource_permissions"
    /\ Cardinality(managed.rows) = 2
    /\ \E p \in managed.rows :
          /\ p.granted_by = 4
          /\ p.permission = READER
          /\ p.expires_at = NULL_TIME

\* C13: revoke_permission removes the record with the given key and returns
\* true when there is one, returns false and leaves the table as it is when
\* there is none, and in both cases leaves every record with another key
\* (another grantee on the resource, the resource's folder, another tenant) as
\* it is.
C13_RevokeRemovesOnlyItsKey ==
    [][ managed'.op = "revoke_permission"
        => LET hit == WithKey(resource_permissions, managed'.key)
           IN  /\ managed'.kind = "return"
               /\ managed'.value = (hit # {})
               /\ resource_permissions' \cap hit = {}
               /\ hit = {} => resource_permissions' = resource_permissions
               /\ \A p \in resource_permissions :
                     KeyOf(p) # managed'.key => p \in resource_permissions'
               /\ resource_permissions' \subseteq resource_permissions
      ]_vars

\* the document's grant to user 1 has been revoked, and the grants to user 2
\* on the document and to user 1 on its folder are still there
C13_Witness ==
    /\ managed.op = "revoke_permission"
    /\ managed.value
    /\ managed.key = <<1, DOCUMENT, Str1, USER, Str1>>
    /\ WithKey(resource_permissions, <<1, DOCUMENT, Str1, USER, Str2>>) # {}
    /\ WithKey(resource_permissions, <<1, FOLDER, Str1, USER, Str1>>) # {}

----------------------------------------------------------------------------
(* SpecRace: two sessions call grant_permission for one key side by side    *)

MaxRaceGrants == 1

Sessions == {1, 2}
RaceKey == <<1, DOCUMENT, Str1, USER, Str1>>
RaceStored == {<<RaceKey, READ, e>> : e \in GrantsExpiries}
RaceRequests ==
    {<<v, by, e>> : v \in GrantsPermissions, by \in Grantors, e \in GrantsExpiries}

InitRace ==
    /\ platform_admins = {}
    /\ tenant_roles = SystemRoles(1) \cup SystemRoles(2)
    /\ tenant_users = GrantorRows
    /\ resource_permissions \in GrantTables(RaceStored, Operator, MaxRaceGrants)
    /\ folders = {FolderRow(1, NULL)}
    /\ documents = {DocumentRow(1, 1)}
    /\ now = 1
    /\ moves = {}
    /\ role_deletes = {}
    /\ last = NoCall
    /\ tenants = ActiveTenants
    /\ Quiet

RaceLookup ==
    \E s \in Sessions, r \in RaceRequests :
        grant_permission_lookup(s, RaceKey[1], RaceKey[2], RaceKey[3], RaceKey[4],
                                RaceKey[5], r[1], r[2], r[3])

RaceCommit == \E c \in grant_calls : grant_permission_commit(c)

NextRace ==
    \/ RaceLookup
    \/ RaceCommit

SpecRace == InitRace /\ [][NextRace]_vars

\* two finished calls that ran side by side: one looked up while the other
\* was between its lookup and its commit
RanConcurrently(a, b) ==
    /\ a.session # b.session
    /\ a.key = b.key
    /\ a.pc = "done"
    /\ b.pc = "done"
    /\ (b.session \in a.with \/ a.session \in b.with)

HoldsArgumentsOf(p, c) ==
    /\ p.permission = c.permission
    /\ p.granted_by = c.granted_by
    /\ p.expires_at = c.expires_at

\* C12: when two grant_permission calls for the same key have run
\* concurrently, whatever the order of their lookups and commits, both have
\* returned (neither raised) and the table holds exactly one record for the
\* key, with the bitmask, granted-by and expiry of one of the two calls.
C12_ConcurrentGrantsAtomic ==
    \A a, b \in grant_calls :
        RanConcurrently(a, b)
        => /\ a.kind = "return"
           /\ b.kind = "return"
           /\ Cardinality(WithKey(resource_permissions, a.key)) = 1
           /\ \A p \in WithKey(resource_permissions, a.key) :
                 HoldsArgumentsOf(p, a) \/ HoldsArgumentsOf(p, b)

\* both calls returned and the record they leave mixes their arguments
C12_Witness ==
    \E a, b \in grant_calls :
        /\ RanConcurrently(a, b)
        /\ a.kind = "return"
        /\ b.kind = "return"
        /\ \E p \in WithKey(resource_permissions, a.key) :
              ~HoldsArgumentsOf(p, a) /\ ~HoldsArgumentsOf(p, b)


----------------------------------------------------------------------------
(* SpecUsable: Tenant.is_active over statuses and timestamps                *)

MaxUsableTime == 3

UsableTimes == {NULL_TIME} \cup 1..MaxUsableTime
UsableTenants ==
    {TenantRow(2, SlugOther, st, e, tr) :
        st \in TenantStatuses, e \in UsableTimes, tr \in UsableTimes}

InitUsable ==
    /\ platform_admins = {}
    /\ tenant_roles = SystemRoles(1) \cup SystemRoles(2)
    /\ tenant_users = OperatorRows
    /\ resource_permissions = {}
    /\ folders = {}
    /\ documents = {}
    /\ now = 1
    /\ moves = {}
    /\ role_deletes = {}
    /\ last = NoCall
    /\ \E t \in UsableTenants :
          tenants = {TenantRow(1, SlugDefault, "active", NULL_TIME, NULL_TIME), t}
    /\ Quiet

UsableIsActive == \E t \in tenants : CallIsActive(t)

UsableTick == now < MaxUsableTime /\ Tick

NextUsable ==
    \/ UsableIsActive
    \/ UsableTick

SpecUsable == InitUsable /\ [][NextUsable]_vars

InThePast(t) == t # NULL_TIME /\ t < now

\* C20: is_active() is true exactly when the status is active or trial, the
\* expiry is unset or not in the past, and the tenant is not a trial whose
\* trial end is in the past; a suspended or archived tenant is never usable,
\* and an active tenant with a past trial end and no past expiry is usable.
C20_UsableExactly ==
    evaluated.op = "is_active"
    => LET t == evaluated.arg
       IN  /\ evaluated.flag
              <=> /\ t.status \in {"active", "trial"}
                  /\ ~InThePast(t.expires_at)
                  /\ ~(t.status = "trial" /\ InThePast(t.trial_ends_at))
           /\ t.status \in {"suspended", "archived"} => ~evaluated.flag
           /\ (/\ t.status = "active"
               /\ InThePast(t.trial_ends_at)
               /\ ~InThePast(t.expires_at))
              => evaluated.flag

\* an active tenant whose trial ended and whose expiry is this very moment
C20_Witness ==
    /\ evaluated.op = "is_active"
    /\ evaluated.arg.status = "active"
    /\ InThePast(evaluated.arg.trial_ends_at)
    /\ evaluated.arg.expires_at = now
    /\ evaluated.flag


----------------------------------------------------------------------------
(* SpecExtract: TenantExtractor.extract_tenant_id over requests             *)

MaxExtractTasks == 1

\* Host headers: with a sub-domain, with a port, with an excluded first
\* label, with fewer than three labels, with an empty first label
ExtractHosts ==
    {<<"o", ".", "a", ".", "b">>,
     <<"o", ".", "a", ".", "b", ":", "8">>,
     <<"w", "w", "w", ".", "a", ".", "b">>,
     <<"a", "p", "i", ".", "a", ".", "b">>,
     <<"a", "d", "m", "i", "n", ".", "a", ".", "b">>,
     <<"a", "p", "p", ".", "a", ".", "b">>,
     <<"a", ".", "b">>,
     <<"o">>,
     <<".", "a", ".", "b">>,
     <<"d", ".", "o", ".", "a", ".", "b">>,
     <<"o", ".", "a", ":", "8", ".", "b">>}
ExtractPathParams == {{}, {UuidStr(2)}}
ExtractQueryParams == {{}, {UuidStr(1)}, {<<>>}}
ExtractHeaders == {{}, {UuidStr(2)}, {SlugDefault}, {<<>>}}

ExtractRequests ==
    {Request(<<>>, pp, qp, h, host) :
        pp \in ExtractPathParams, qp \in ExtractQueryParams, h \in ExtractHeaders,
        host \in {{}} \cup {{x} : x \in ExtractHosts}}

\* a request the server has handed to no middleware yet
NoOutcome == [kind |-> "none", status |-> 0, detail |-> "", x_tenant_id |-> {}]
NewRequest(request) ==
    [pc |-> "received", request |-> request, skipped |-> FALSE, looked_up |-> FALSE,
     populated |-> FALSE, called_next |-> FALSE, state_tenant_id |-> {}, reads |-> {},
     fault |-> "none", outcome |-> NoOutcome]

InitExtract ==
    /\ platform_admins = {}
    /\ tenant_roles = SystemRoles(1) \cup SystemRoles(2)
    /\ tenant_users = OperatorRows
    /\ resource_permissions = {}
    /\ folders = {}
    /\ documents = {}
    /\ now = 1
    /\ moves = {}
    /\ role_deletes = {}
    /\ last = NoCall
    /\ managed = NoManagerCall
    /\ grant_calls = {}
    /\ tenants = ActiveTenants
    /\ requests \in [1..MaxExtractTasks -> {NewRequest(r) : r \in ExtractRequests}]
    /\ _tenant_context = [t \in 1..MaxExtractTasks |-> NULL]
    /\ _tenant_user_context = [t \in 1..MaxExtractTasks |-> NULL]
    /\ evaluated = NoEvaluation

ExtractCall == \E t \in DOMAIN requests : CallExtractTenantId(requests[t].request)

NextExtract == ExtractCall

SpecExtract == InitExtract /\ [][NextExtract]_vars

\* the sub-domain label of a Host header: the first of at least three
\* dot-separated labels of the host without its port, unless it is www, api,
\* admin or app
HostLabels(request) == Split(Split(HostOf(request), ":")[1], ".")
SubDomain(request) ==
    IF /\ Len(HostLabels(request)) >= 3
       /\ HostLabels(request)[1] \notin {<<"w", "w", "w">>, <<"a", "p", "i">>,
                                         <<"a", "d", "m", "i", "n">>, <<"a", "p", "p">>}
    THEN {HostLabels(request)[1]}
    ELSE {}

\* the request gives no empty value: no 'tenant_id=' in the query, no empty
\* X-Tenant-ID header, no empty first label in the Host header
NoEmptyValue(request) ==
    /\ <<>> \notin request.query_params
    /\ <<>> \notin request.x_tenant_id
    /\ <<>> \notin SubDomain(request)

----------------------------------------------------------------------------
(* SpecMiddleware: TenantMiddleware.dispatch, one request after another     *)

MaxMiddlewareTime == 2

\* request paths: a request target with no leading "/" (its path is empty),
\* the root, allow-listed ones and routes of the application
PathNone == <<>>
PathRoot == <<"/">>
PathHealth == <<"/", "h", "e", "a", "l", "t", "h">>
PathUpload == <<"/", "a", "p", "i", "/", "u", "p", "l", "o", "a", "d">>
PathTenantInfo == <<"/", "a", "p", "i", "/", "t", "e", "n", "a", "n", "t", "s", "/", "c", "u", "r", "r", "e", "n", "t", "/", "i", "n", "f", "o">>
PathPlatform == <<"/", "a", "p", "i", "/", "p", "l", "a", "t", "f", "o", "r", "m", "/", "t", "e", "n", "a", "n", "t", "s">>
MiddlewarePaths ==
    {PathNone, PathRoot, PathHealth, PathUpload, PathTenantInfo, PathPlatform}

\* X-Tenant-ID: none, tenant 2 by id and by slug, an id no tenant has
MiddlewareHeaders == {{}, {UuidStr(2)}, {SlugOther}, {UuidStr(9)}}
\* the query string: no tenant_id, or 'tenant_id=' with no value
MiddlewareQueries == {{}, {<<>>}}
MiddlewareRequests ==
    {Request(path, {}, q, h, {}) :
        path \in MiddlewarePaths, q \in MiddlewareQueries, h \in MiddlewareHeaders}

\* tenant 2: active, suspended, or on a trial that ends at time 1
MiddlewareTenants ==
    {TenantRow(2, SlugOther, "active", NULL_TIME, NULL_TIME),
     TenantRow(2, SlugOther, "suspended", NULL_TIME, NULL_TIME),
     TenantRow(2, SlugOther, "trial", NULL_TIME, 1)}

Tasks == {1}

InitMiddleware ==
    /\ platform_admins = {}
    /\ tenant_roles = SystemRoles(1) \cup SystemRoles(2)
    /\ tenant_users = OperatorRows
    /\ resource_permissions = {}
    /\ folders = {}
    /\ documents = {}
    /\ now = 1
    /\ moves = {}
    /\ role_deletes = {}
    /\ last = NoCall
    /\ managed = NoManagerCall
    /\ grant_calls = {}
    /\ \E t \in MiddlewareTenants :
          tenants = {TenantRow(1, SlugDefault, "active", NULL_TIME, NULL_TIME), t}
    /\ requests \in [Tasks -> {NewRequest(r) : r \in MiddlewareRequests}]
    /\ _tenant_context = [t \in Tasks |-> NULL]
    /\ _tenant_user_context = [t \in Tasks |-> NULL]
    /\ evaluated = NoEvaluation

MiddlewareCalled ==
    \E t \in Tasks, r \in MiddlewareRequests : dispatch_called(t, r)

MiddlewareEnter == \E t \in Tasks, fault \in DbFaults : dispatch_enter(t, fault)

MiddlewareLog == \E t \in Tasks : handler_log(t)

MiddlewareLeave == \E t \in Tasks, raises \in BOOLEAN : dispatch_leave(t, raises)

MiddlewareShouldSkip == \E path \in MiddlewarePaths : CallShouldSkip(path)

MiddlewareTick == now < MaxMiddlewareTime /\ Tick

NextMiddleware ==
    \/ MiddlewareCalled
    \/ MiddlewareEnter
    \/ MiddlewareLog
    \/ MiddlewareLeave
    \/ MiddlewareShouldSkip
    \/ MiddlewareTick

SpecMiddleware == InitMiddleware /\ [][NextMiddleware]_vars

\* C14: whenever dispatch has finished, on whichever path, the tenant slot and
\* the tenant-membership slot are empty in the task that handled the request,
\* and so they are when the next request starts there.
C14_ContextEmptyWhenDispatchFinishes ==
    \A t \in DOMAIN requests :
        requests[t].pc \in {"finished", "received"}
        => /\ _tenant_context[t] = NULL
           /\ _tenant_user_context[t] = NULL

\* dispatch has ended in the 500 of a failed commit, after set_tenant
C14_Witness ==
    \E t \in DOMAIN requests :
        /\ requests[t].pc = "finished"
        /\ requests[t].populated
        /\ requests[t].outcome = InitFailed
        /\ requests[t].fault = "commit"

\* the paths the allow-list names: the root, /health, /docs, /redoc,
\* /openapi.json, /api/auth/register, /api/auth/login, /api/auth/me and what
\* lies under /api/platform
AllowListed(path) ==
    \/ path = PathRoot
    \/ \E p \in skip_paths \ {PathRoot} : StartsWith(path, p)

\* C16: tenant resolution is bypassed for allow-listed paths only: for every
\* other path, such as /api/upload and /api/tenants/current/info, _should_skip
\* is false and dispatch does not take the bypass.
C16_BypassOnlyAllowListed ==
    /\ (evaluated.op = "_should_skip" /\ ~AllowListed(evaluated.arg))
       => ~evaluated.flag
    /\ \A t \in DOMAIN requests :
          (requests[t].pc # "received" /\ ~AllowListed(requests[t].request.path))
          => ~requests[t].skipped

\* the handler of /api/upload runs though no tenant was looked up
C16_Witness ==
    \E t \in DOMAIN requests :
        /\ requests[t].request.path = PathUpload
        /\ requests[t].request.x_tenant_id = {UuidStr(9)}
        /\ requests[t].skipped
        /\ requests[t].called_next
        /\ ~requests[t].looked_up

\* the tenants an identifier names: by the text of its id or by its slug
Named(identifier) == {t \in tenants : UuidStr(t.id) = identifier \/ t.slug = identifier}

Usable(t) ==
    /\ t.status \in {"active", "trial"}
    /\ ~InThePast(t.expires_at)
    /\ ~(t.status = "trial" /\ InThePast(t.trial_ends_at))

\* C17: for a request that goes through tenant resolution (not bypassed, with
\* an identifier to look up, the database answering): no tenant for the
\* identifier gives 404 and an unusable tenant gives 403, both without the
\* handler being called, the context being set or last_active_at changing;
\* and the handler is called only with the context set to a usable tenant
\* whose last_active_at is the current time.
C17_ResolutionFailures ==
    [][ \A t \in DOMAIN requests :
          LET before == requests[t]
              after == requests'[t]
              identifier == extract_tenant_id(before.request)
          IN  (/\ before.pc = "received"
               /\ after.pc # "received"
               /\ ~after.skipped
               /\ identifier # <<>>)
              => /\ (after.fault \notin {"session", "query"} /\ Named(identifier) = {})
                    => after.outcome.kind = "HTTPException" /\ after.outcome.status = 404
                 /\ (/\ after.fault \notin {"session", "query"}
                     /\ \E x \in Named(identifier) : ~Usable(x))
                    => after.outcome.kind = "HTTPException" /\ after.outcome.status = 403
                 /\ (\A x \in Named(identifier) : ~Usable(x))
                    => /\ after.pc = "finished"
                       /\ ~after.called_next
                       /\ ~after.populated
                       /\ _tenant_context'[t] = NULL
                       /\ tenants' = tenants
                 /\ after.populated => \E x \in Named(identifier) : Usable(x)
                 /\ tenants' # tenants => after.called_next
                 /\ after.called_next
                    => \E x \in Named(identifier) :
                          /\ Usable(x)
                          /\ after.populated
                          /\ _tenant_context'[t] = x.id
                          /\ [x EXCEPT !.last_active_at = now] \in tenants'
      ]_vars

\* a request for the suspended tenant 2 has ended in 403
C17_Witness ==
    \E t \in DOMAIN requests :
        /\ requests[t].pc = "finished"
        /\ requests[t].request.path = PathNone
        /\ requests[t].request.x_tenant_id = {SlugOther}
        /\ requests[t].outcome.status = 403
        /\ \E x \in tenants : x.id = 2 /\ x.status = "suspended"

\* C27: for every request that dispatch does not bypass, extraction yields an
\* identifier that is looked up, and the handler is called only after a
\* tenant has been resolved and placed in the context; no request, one with
\* an empty tenant_id query parameter included, reaches the handler with an
\* empty context.
C27_HandlerOnlyWithTenant ==
    \A t \in DOMAIN requests :
        LET r == requests[t]
        IN  /\ (r.pc # "received" /\ ~r.skipped /\ r.fault = "none") => r.looked_up
            /\ (r.pc = "downstream" /\ ~r.skipped)
               => /\ r.populated
                  /\ _tenant_context[t] # NULL
                  /\ \E x \in tenants : x.id = _tenant_context[t]

\* 'tenant_id=' in the query string and an X-Tenant-ID that names no tenant:
\* the handler runs, nothing was looked up and the context is empty
C27_Witness ==
    \E t \in DOMAIN requests :
        /\ requests[t].pc = "downstream"
        /\ ~requests[t].skipped
        /\ requests[t].request.query_params = {<<>>}
        /\ requests[t].request.x_tenant_id = {UuidStr(9)}
        /\ ~requests[t].looked_up
        /\ _tenant_context[t] = NULL


----------------------------------------------------------------------------
(* SpecInterleaved: dispatch for requests that are handled side by side     *)

MaxInterleavedTasks == 2

InterleavedTasks == 1..MaxInterleavedTasks

\* requests for tenant 1 and for tenant 2, and one that is bypassed
InterleavedRequests ==
    {Request(PathNone, {}, {}, {UuidStr(1)}, {}),
     Request(PathNone, {}, {}, {UuidStr(2)}, {}),
     Request(PathRoot, {}, {}, {UuidStr(2)}, {})}

InitInterleaved ==
    /\ platform_admins = {}
    /\ tenant_roles = SystemRoles(1) \cup SystemRoles(2)
    /\ tenant_users = OperatorRows
    /\ resource_permissions = {}
    /\ folders = {}
    /\ documents = {}
    /\ now = 1
    /\ moves = {}
    /\ role_deletes = {}
    /\ last = NoCall
    /\ managed = NoManagerCall
    /\ grant_calls = {}
    /\ tenants = ActiveTenants
    /\ requests \in [InterleavedTasks -> {NewRequest(r) : r \in InterleavedRequests}]
    /\ _tenant_context = [t \in InterleavedTasks |-> NULL]
    /\ _tenant_user_context = [t \in InterleavedTasks |-> NULL]
    /\ evaluated = NoEvaluation

InterleavedCalled ==
    \E t \in InterleavedTasks, r \in InterleavedRequests : dispatch_called(t, r)

InterleavedEnter ==
    \E t \in InterleavedTasks, fault \in DbFaults : dispatch_enter(t, fault)

InterleavedLog == \E t \in InterleavedTasks : handler_log(t)

InterleavedLeave ==
    \E t \in InterleavedTasks, raises \in BOOLEAN : dispatch_leave(t, raises)

NextInterleaved ==
    \/ InterleavedCalled
    \/ InterleavedEnter
    \/ InterleavedLog
    \/ InterleavedLeave

SpecInterleaved == InitInterleaved /\ [][NextInterleaved]_vars

\* C15: with requests for different tenants handled side by side, every read
\* of the tenant context made while handling a request returns the tenant of
\* that request or nothing, and a step taken for one request (a set, a clear)
\* leaves the context slots of the other request as they were.
C15_ContextIsPerRequest ==
    [][ \A t \in DOMAIN requests :
          /\ \A v \in requests'[t].reads :
                \/ v = NULL
                \/ \E x \in Named(extract_tenant_id(requests'[t].request)) : v = x.id
          /\ requests'[t] = requests[t]
             => /\ _tenant_context'[t] = _tenant_context[t]
                /\ _tenant_user_context'[t] = _tenant_user_context[t]
      ]_vars

\* the handler of one request has read tenant 1 while the handler of the
\* other runs with tenant 2 in its context
C15_Witness ==
    \E t, u \in DOMAIN requests :
        /\ t # u
        /\ requests[t].pc = "downstream"
        /\ requests[u].pc = "downstream"
        /\ requests[t].reads = {1}
        /\ _tenant_context[u] = 2


----------------------------------------------------------------------------
(* SpecFaults: check and check_silent when a database read raises           *)

MaxFaultGrants == 1

\* a platform admin (2), the tenant admin (3), a member (1), a stranger (5)
FaultUsers == {1, 2, Operator, 5}
FaultStored ==
    {<<<<1, DOCUMENT, Str1, USER, Str1>>, v, NULL_TIME>> : v \in {READ, OWNER}}
        \cup {<<<<1, FOLDER, Str1, USER, Str1>>, OWNER, NULL_TIME>>}
FaultTargets == {<<DOCUMENT, Str1>>, <<DOCUMENT, StrAbc>>, <<WORKSPACE, Str1>>}
FaultQueries ==
    {PermissionContext(u, UuidStr(1), t[1], t[2], r) :
        u \in FaultUsers, t \in FaultTargets, r \in Required}

InitFaults ==
    /\ platform_admins = {PlatformAdminRow(2, SUPER_ADMIN)}
    /\ tenant_roles = SystemRoles(1) \cup SystemRoles(2)
    /\ tenant_users = OperatorRows \cup
          {TenantUserRow(1, 1, MemberRoleId(1), NULL, "active")}
    /\ resource_permissions \in GrantTables(FaultStored, Operator, MaxFaultGrants)
    /\ folders = {FolderRow(1, NULL)}
    /\ documents = {DocumentRow(1, 1)}
    /\ now = 1
    /\ moves = {}
    /\ role_deletes = {}
    /\ last = NoCall
    /\ tenants = ActiveTenants
    /\ Quiet

FaultsCheck == \E ctx \in FaultQueries, fault \in Reads : CallCheckFailing(ctx, fault)

FaultsRevoke ==
    \E p \in resource_permissions :
        revoke_permission(p.tenant_id, p.resource_type, p.resource_id,
                          p.grantee_type, p.grantee_id)

NextFaults ==
    \/ FaultsCheck
    \/ FaultsRevoke

SpecFaults == InitFaults /\ [][NextFaults]_vars

\* C18: when a read made during check raises (the platform-admin, membership,
\* role, grant or parent lookup), or the walk raises otherwise, check ends in
\* the 500 failure and check_silent returns False; check returns True only
\* when nothing raised.
C18_FailClosed ==
    last.op = "check, a read failing"
    => /\ last.body.kind \notin {"return", "HTTPException"}
          => /\ last.result.kind = "HTTPException"
             /\ last.result.status = 500
             /\ last.silent = Return(0)
       /\ last.result.kind = "return"
          => last.body = ReturnTrue /\ last.result = ReturnTrue
       /\ last.silent.kind = "return"
       /\ last.silent.value = 1 => last.result = ReturnTrue

\* the parent lookup raised for a member whose document carries no grant
C18_Witness ==
    /\ last.op = "check, a read failing"
    /\ last.fault = "parent"
    /\ last.ctx.user_id = 1
    /\ last.body = RaiseError
    /\ last.result.status = 500
    /\ last.silent = Return(0)

----------------------------------------------------------------------------
(* SpecVocabulary: the Permission constants read and tested by callers      *)

VocabularyMasks == 0..OWNER
VocabularyRequired == {READ, WRITE, DELETE, SHARE, ADMIN, DOWNLOAD, COMMENT, EXPORT}

InitVocabulary ==
    /\ platform_admins = {}
    /\ tenant_roles = SystemRoles(1) \cup SystemRoles(2)
    /\ tenant_users = OperatorRows
    /\ resource_permissions = {}
    /\ folders = {}
    /\ documents = {}
    /\ now = 1
    /\ moves = {}
    /\ role_deletes = {}
    /\ last = NoCall
    /\ tenants = ActiveTenants
    /\ Quiet

VocabularyRead == \E name \in PermissionNames : CallPermissionAttr(name)

VocabularyHas ==
    \E user_perm \in VocabularyMasks, required_perm \in VocabularyRequired :
        CallHasPermission(user_perm, required_perm)

NextVocabulary ==
    \/ VocabularyRead
    \/ VocabularyHas

SpecVocabulary == InitVocabulary /\ [][NextVocabulary]_vars

\* the value the claim gives to each name
ClaimedValue(name) ==
    CASE name = "NONE" -> 0
      [] name = "READ" -> 1
      [] name = "WRITE" -> 2
      [] name = "DELETE" -> 4
      [] name = "SHARE" -> 8
      [] name = "ADMIN" -> 16
      [] name = "DOWNLOAD" -> 32
      [] name = "COMMENT" -> 64
      [] name = "EXPORT" -> 128
      [] name = "READER" -> 33
      [] name = "EDITOR" -> 67
      [] name = "CONTRIBUTOR" -> 71
      [] name = "OWNER" -> 255

\* C21: the base bits are 1, 2, 4, 8, 16, 32, 64 and 128 and the named
\* combinations read as reader = 33, editor = 67, contributor = 71 and
\* owner = 255, reader being read|download, editor reader|write|comment,
\* contributor editor|delete and owner the OR of all eight bits.
C21_NamedCombinationValues ==
    evaluated.op = "Permission"
    => /\ evaluated.value = ClaimedValue(evaluated.arg)
       /\ evaluated.arg = "READER" => evaluated.value = BitOr(READ, DOWNLOAD)
       /\ evaluated.arg = "EDITOR"
          => evaluated.value = BitOr(READER, BitOr(WRITE, COMMENT))
       /\ evaluated.arg = "CONTRIBUTOR" => evaluated.value = BitOr(EDITOR, DELETE)
       /\ evaluated.arg = "OWNER"
          => \A bit \in VocabularyRequired : has_permission(evaluated.value, bit)

\* Permission.EDITOR read as 99: the union the claim names, not the value
C21_Witness ==
    /\ evaluated.op = "Permission"
    /\ evaluated.arg = "EDITOR"
    /\ evaluated.value = 99
    /\ evaluated.value = BitOr(READER, BitOr(WRITE, COMMENT))


----------------------------------------------------------------------------
(* SpecTwice: one query object evaluated two times.  User 1 is a member of  *)
(* tenant 1; documents 1 and 2 lie in folder 1, folder 2 lies in folder 3.  *)

MaxTwiceGrants == 2

TwiceKeys ==
    {<<1, DOCUMENT, Str2, USER, Str1>>,
     <<1, FOLDER, Str1, USER, Str1>>,
     <<1, FOLDER, Str2, USER, Str1>>,
     <<1, FOLDER, IntToStr(3), ROLE, UuidStr(MemberRoleId(1))>>}
TwicePermissions == {READER, OWNER}
TwiceStored == {<<k, v, NULL_TIME>> : k \in TwiceKeys, v \in TwicePermissions}

TwiceTargets ==
    {<<DOCUMENT, Str1>>, <<DOCUMENT, Str2>>, <<FOLDER, Str1>>, <<FOLDER, Str2>>}
TwiceRequired == {READ, WRITE, DELETE}
TwiceQueries ==
    {PermissionContext(u, UuidStr(1), t[1], t[2], r) :
        u \in {1, Operator}, t \in TwiceTargets, r \in TwiceRequired}

InitTwice ==
    /\ platform_admins = {}
    /\ tenant_roles = SystemRoles(1) \cup SystemRoles(2)
    /\ tenant_users = OperatorRows \cup {TenantUserRow(1, 1, MemberRoleId(1), NULL, "active")}
    /\ resource_permissions \in GrantTables(TwiceStored, Operator, MaxTwiceGrants)
    /\ folders = {FolderRow(1, NULL), FolderRow(2, 3), FolderRow(3, NULL)}
    /\ documents = {DocumentRow(1, 1), DocumentRow(2, 1)}
    /\ now = 1
    /\ moves = {}
    /\ role_deletes = {}
    /\ last = NoCall
    /\ tenants = ActiveTenants
    /\ Quiet

TwiceCheck == \E ctx \in TwiceQueries : CallCheckTwice(ctx)

TwiceGetPermission == \E ctx \in TwiceQueries : CallGetUserPermissionTwice(ctx)

TwiceRevoke ==
    \E p \in resource_permissions :
        revoke_permission(p.tenant_id, p.resource_type, p.resource_id,
                          p.grantee_type, p.grantee_id)

NextTwice ==
    \/ TwiceCheck
    \/ TwiceGetPermission
    \/ TwiceRevoke

SpecTwice == InitTwice /\ [][NextTwice]_vars

EvaluatedTwice == last.op \in {"check twice", "get_user_permission twice"}

\* C22: resolution has no side effect on its inputs: after check or
\* get_user_permission returns, the query object is as it was passed, and
\* evaluating the same object a second time on the unchanged store gives the
\* result of the first time, also when the first walk went from a document
\* up to its folder.
C22_QueryUnchangedAndRepeatable ==
    EvaluatedTwice
    => /\ CtxAfter(last.ctx, last.resource_type) = last.ctx
       /\ last.again = last.result

\* the first walk went from document 2 up to folder 1 and was denied DELETE by
\* the grant there; the second evaluation of the object allows it
C22_Witness ==
    /\ last.op = "check twice"
    /\ last.ctx.resource_type = DOCUMENT
    /\ last.ctx.resource_id = Str2
    /\ last.resource_type = FOLDER
    /\ last.result.kind = "HTTPException"
    /\ last.again = ReturnTrue


----------------------------------------------------------------------------
(* SpecParent: the parent lookup and grants on workspaces.  Document 1 lies *)
(* in folder 1, folder 1 in folder 2, folder 2 and folder 3 are roots,      *)
(* document 2 lies in no folder.                                            *)

MaxParentGrants == 2

StrW == <<"w">>

ParentKeys ==
    {<<1, WORKSPACE, Str1, USER, Str1>>,
     <<1, WORKSPACE, Str2, ROLE, UuidStr(MemberRoleId(1))>>,
     <<1, WORKSPACE, StrW, USER, Str1>>,
     <<1, FOLDER, Str2, USER, Str1>>,
     <<1, DOCUMENT, Str2, USER, Str1>>}
ParentPermissions == {READ, OWNER}
ParentStored == {<<k, v, NULL_TIME>> : k \in ParentKeys, v \in ParentPermissions}

ParentTargets ==
    {<<DOCUMENT, Str1>>, <<DOCUMENT, Str2>>, <<DOCUMENT, Str9>>,
     <<FOLDER, Str1>>, <<FOLDER, Str2>>, <<FOLDER, IntToStr(3)>>,
     <<WORKSPACE, Str1>>, <<WORKSPACE, Str2>>, <<WORKSPACE, StrW>>}
ParentRequired == {READ, DELETE}
ParentQueries ==
    {PermissionContext(1, UuidStr(1), t[1], t[2], r) :
        t \in ParentTargets, r \in ParentRequired}

InitParent ==
    /\ platform_admins = {}
    /\ tenant_roles = SystemRoles(1) \cup SystemRoles(2)
    /\ tenant_users = OperatorRows \cup {TenantUserRow(1, 1, MemberRoleId(1), NULL, "active")}
    /\ resource_permissions \in GrantTables(ParentStored, Operator, MaxParentGrants)
    /\ folders = {FolderRow(1, 2), FolderRow(2, NULL), FolderRow(3, NULL)}
    /\ documents = {DocumentRow(1, 1), DocumentRow(2, NULL)}
    /\ now = 1
    /\ moves = {}
    /\ role_deletes = {}
    /\ last = NoCall
    /\ tenants = ActiveTenants
    /\ Quiet

ParentLookup == \E t \in ParentTargets : CallGetParentResource(t[1], t[2])

ParentCheck == \E ctx \in ParentQueries : CallCheck(ctx)

ParentGetPermission == \E ctx \in ParentQueries : CallGetUserPermission(ctx)

ParentRevoke ==
    \E p \in resource_permissions :
        revoke_permission(p.tenant_id, p.resource_type, p.resource_id,
                          p.grantee_type, p.grantee_id)

NextParent ==
    \/ ParentLookup
    \/ ParentCheck
    \/ ParentGetPermission
    \/ ParentRevoke

SpecParent == InitParent /\ [][NextParent]_vars

\* the parent the tables give: the folder of the stored document, the parent
\* folder of the stored folder, nothing for anything else
ParentInTables(resource_type, resource_id) ==
    LET n == StrToInt(resource_id)
        above == IF resource_type = DOCUMENT
                 THEN {d.folder_id : d \in {x \in documents : n.ok /\ x.id = n.value}}
                 ELSE IF resource_type = FOLDER
                 THEN {f.parent_id : f \in {x \in folders : n.ok /\ x.id = n.value}}
                 ELSE {}
    IN  {<<FOLDER, a>> : a \in above \ {NULL}}

\* the levels of the walk from a resource, the target first
LevelsFrom(ctx) == ChainFrom(<<ctx.resource_type, ctx.resource_id>>, 10)

\* the first level that carries a live grant naming the principal, 0 if none
FirstHit(ctx) ==
    LET hits == {k \in 1..Len(LevelsFrom(ctx)) :
                    GrantsAt(ctx, LevelsFrom(ctx)[k][1], LevelsFrom(ctx)[k][2]) # {}}
    IN  IF hits = {} THEN 0 ELSE CHOOSE k \in hits : \A j \in hits : k <= j

----------------------------------------------------------------------------
(* SpecFresh: resolutions that follow a grant or revoke call.  User 1 is a  *)
(* member of tenant 1; document 1 lies in folder 1, folder 1 in folder 2,   *)
(* document 2 in no folder; the time is 2.                                  *)

MaxFreshGrants == 2

FreshKeys ==
    {<<1, DOCUMENT, Str1, USER, Str1>>,
     <<1, FOLDER, Str1, USER, Str1>>,
     <<1, FOLDER, Str2, ROLE, UuidStr(MemberRoleId(1))>>}
FreshPermissions == {READ, OWNER}
\* no expiry, expired, not yet expired
FreshExpiries == {NULL_TIME, 1, 2}
FreshStored == {<<k, v, NULL_TIME>> : k \in FreshKeys, v \in FreshPermissions}

FreshTargets == {<<DOCUMENT, Str1>>, <<DOCUMENT, Str2>>, <<FOLDER, Str1>>}
FreshRequired == {READ, DELETE}
FreshQueries ==
    {PermissionContext(1, UuidStr(1), t[1], t[2], r) :
        t \in FreshTargets, r \in FreshRequired}

InitFresh ==
    /\ platform_admins = {}
    /\ tenant_roles = SystemRoles(1) \cup SystemRoles(2)
    /\ tenant_users = OperatorRows \cup {TenantUserRow(1, 1, MemberRoleId(1), NULL, "active")}
    /\ resource_permissions \in GrantTables(FreshStored, Operator, MaxFreshGrants)
    /\ folders = {FolderRow(1, 2), FolderRow(2, NULL)}
    /\ documents = {DocumentRow(1, 1), DocumentRow(2, NULL)}
    /\ now = 2
    /\ moves = {}
    /\ role_deletes = {}
    /\ last = NoCall
    /\ tenants = ActiveTenants
    /\ Quiet

FreshGrant ==
    \E k \in FreshKeys, v \in FreshPermissions, x \in FreshExpiries :
        grant_permission(k[1], k[2], k[3], k[4], k[5], v, Operator, x)

FreshRevoke ==
    \E k \in FreshKeys : revoke_permission(k[1], k[2], k[3], k[4], k[5])

FreshCheck == \E ctx \in FreshQueries : CallAfterManager("check", ctx)

FreshGetPermission ==
    \E ctx \in FreshQueries : CallAfterManager("get_user_permission", ctx)

NextFresh ==
    \/ FreshGrant
    \/ FreshRevoke
    \/ FreshCheck
    \/ FreshGetPermission

SpecFresh == InitFresh /\ [][NextFresh]_vars

\* what the rules give on the table as it is: the largest live grant of the
\* first level that has one, the role default when no level has
ExpectedNow(ctx) ==
    IF FirstHit(ctx) = 0 THEN RoleDefaultOf(ctx)
    ELSE Largest(GrantsAt(ctx, LevelsFrom(ctx)[FirstHit(ctx)][1],
                          LevelsFrom(ctx)[FirstHit(ctx)][2]))

\* C25: every resolution reflects the store at the time it runs.  A
\* resolution that follows a returned revoke(key) finds no grant of that key
\* and is answered from the store without it; a resolution that follows a
\* returned grant(key, b) and stops at that grant's resource level sees b
\* among the bitmasks of the level.
C25_ResolutionReadsCurrentStore ==
    (/\ Called("check") \/ Called("get_user_permission")
     /\ PlainMember(last.ctx)
     /\ managed.kind = "return")
    => /\ managed.op = "revoke_permission"
          => /\ \A p \in resource_permissions : KeyOf(p) # managed.key
             /\ AnsweredWith(ExpectedNow(last.ctx))
       /\ managed.op = "grant_permission"
          => \A row \in managed.rows :
                (/\ Applies(row, last.ctx)
                 /\ Live(row)
                 /\ FirstHit(last.ctx) # 0
                 /\ LevelsFrom(last.ctx)[FirstHit(last.ctx)]
                        = <<row.resource_type, row.resource_id>>)
                => /\ row.permission = managed.args[1]
                   /\ row.permission
                         \in GrantsAt(last.ctx, row.resource_type, row.resource_id)
                   /\ AnsweredWith(ExpectedNow(last.ctx))

\* C25 witness: the owner grant of user 1 on document 1 was lowered to read by
\* a grant call, and the check for delete that followed was denied
C25_Witness ==
    /\ Called("check")
    /\ last.ctx.resource_type = DOCUMENT /\ last.ctx.resource_id = Str1
    /\ last.ctx.required_permission = DELETE
    /\ managed.op = "grant_permission"
    /\ managed.kind = "return"
    /\ managed.key = <<1, DOCUMENT, Str1, USER, Str1>>
    /\ managed.args[1] = READ
    /\ GrantsAt(last.ctx, DOCUMENT, Str1) = {READ}
    /\ GrantsAt(last.ctx, FOLDER, Str1) = {OWNER}
    /\ last.result = Denied


----------------------------------------------------------------------------
(* SpecInherit: grants with the inherit flag set and cleared.  User 1 is a  *)
(* member of tenant 1; document 1 lies in folder 1, folder 1 in folder 2.   *)

MaxInheritGrants == 2

InheritKeys ==
    {<<1, DOCUMENT, Str1, USER, Str1>>,
     <<1, FOLDER, Str1, USER, Str1>>,
     <<1, FOLDER, Str2, ROLE, UuidStr(MemberRoleId(1))>>}
InheritPermissions == {READ, OWNER}
InheritStored == {<<k, v, NULL_TIME>> : k \in InheritKeys, v \in InheritPermissions}

\* the tables that are `table` with some inherit flags cleared
WithInheritFlags(table) ==
    {{[p EXCEPT !.inherit = flags[p]] : p \in table} : flags \in [table -> BOOLEAN]}

InheritTargets == {<<DOCUMENT, Str1>>, <<FOLDER, Str1>>, <<FOLDER, Str2>>}
InheritRequired == {READ, DELETE}
InheritQueries ==
    {PermissionContext(1, UuidStr(1), t[1], t[2], r) :
        t \in InheritTargets, r \in InheritRequired}

InitInherit ==
    /\ platform_admins = {}
    /\ tenant_roles = SystemRoles(1) \cup SystemRoles(2)
    /\ tenant_users = OperatorRows \cup {TenantUserRow(1, 1, MemberRoleId(1), NULL, "active")}
    /\ \E table \in GrantTables(InheritStored, Operator, MaxInheritGrants) :
          resource_permissions \in WithInheritFlags(table)
    /\ folders = {FolderRow(1, 2), FolderRow(2, NULL)}
    /\ documents = {DocumentRow(1, 1)}
    /\ now = 1
    /\ moves = {}
    /\ role_deletes = {}
    /\ last = NoCall
    /\ tenants = ActiveTenants
    /\ Quiet

InheritSet == \E p \in resource_permissions, inherit \in BOOLEAN : set_inherit(p, inherit)

InheritCheck == \E ctx \in InheritQueries : CallCheck(ctx)

InheritGetPermission == \E ctx \in InheritQueries : CallGetUserPermission(ctx)

NextInherit ==
    \/ InheritSet
    \/ InheritCheck
    \/ InheritGetPermission

SpecInherit == InitInherit /\ [][NextInherit]_vars

----------------------------------------------------------------------------
(* Platform roles other than super-admin, under Spec                        *)

\* C28: the platform bypass of check and get_user_permission applies only to
\* principals that require_platform_admin lets through, those whose platform
\* role is super-admin: a principal registered as ops, support or auditor
\* with no active membership in the tenant is refused by check like any
\* non-member and gets no more than a non-member from get_user_permission.
C28_BypassOnlySuperAdmin ==
    (/\ HasPlatformRow(last.ctx.user_id)
     /\ ~require_platform_admin(last.ctx.user_id)
     /\ ActiveRows(last.ctx.user_id, last.ctx.tenant_id) = {})
    => /\ Called("check") => last.result = NotInTenant
       /\ Called("get_user_permission") => last.result = Return(ExpectedNow(last.ctx))

\* C28 witness: a user registered with platform role ops and no membership in
\* tenant 2 passed check for write on a document of tenant 2
C28_Witness ==
    /\ Called("check")
    /\ \E a \in platform_admins : a.user_id = last.ctx.user_id /\ a.role = OPS
    /\ last.ctx.tenant_id = UuidStr(2)
    /\ ActiveRows(last.ctx.user_id, last.ctx.tenant_id) = {}
    /\ last.ctx.required_permission = WRITE
    /\ last.result = ReturnTrue


----------------------------------------------------------------------------
(* Tenant isolation of decisions, under Spec                                *)

\* what the membership, role and grants recorded under the tenant of the
\* query give: refusal without active membership, everything for a tenant
\* admin, otherwise the tenant's grants along the walk or the role default
OwnTenantAnswer(ctx) ==
    IF ActiveRows(ctx.user_id, ctx.tenant_id) = {}
    THEN /\ Called("check") => last.result = NotInTenant
         /\ Called("get_user_permission") => last.result = Return(ExpectedNow(ctx))
    ELSE IF RoleNameIs(ActiveRows(ctx.user_id, ctx.tenant_id), "tenant_admin")
    THEN /\ Called("check") => last.result = ReturnTrue
         /\ Called("get_user_permission") => last.result = Return(OWNER)
    ELSE AnsweredWith(ExpectedNow(ctx))

\* C29: for a principal who is no platform admin the result of check and of
\* get_user_permission in a tenant is given by that tenant's membership, role
\* and grants alone: whatever grants and memberships are recorded, changed or
\* removed under another tenant, also for the same resource and grantee, the
\* answer is the one the tenant's own rows give.
C29_TenantIsolation ==
    (/\ Called("check") \/ Called("get_user_permission")
     /\ ~HasPlatformRow(last.ctx.user_id))
    => OwnTenantAnswer(last.ctx)

\* C29 witness: user 1 is a plain member of tenant 1, is tenant admin of
\* tenant 2 and holds an owner grant on document 1 under tenant 2; in tenant 1
\* get_user_permission gave the member role's default
C29_Witness ==
    /\ Called("get_user_permission")
    /\ last.ctx.user_id = 1
    /\ last.ctx.tenant_id = UuidStr(1)
    /\ PlainMember(last.ctx)
    /\ RoleNameIs(ActiveRows(1, UuidStr(2)), "tenant_admin")
    /\ \E p \in resource_permissions :
          /\ p.tenant_id = 2
          /\ p.resource_type = DOCUMENT /\ p.resource_id = Str1
          /\ p.grantee_type = USER /\ p.grantee_id = Str1
          /\ p.permission = OWNER /\ p.expires_at = NULL_TIME
    /\ last.result = Return(EDITOR)


----------------------------------------------------------------------------
(* SpecConcurrent: check() read by read while other requests commit.  User  *)
(* 1 is a member of tenant 1 with the member role; document 1 lies in       *)
(* folder 1.  The other requests are the management routes and the          *)
(* PermissionManager calls of user 3, each committed between two reads of   *)
(* the check.                                                               *)

MaxConcurrentGrants == 2

ConcurrentKeys ==
    {<<1, DOCUMENT, Str1, ROLE, UuidStr(MemberRoleId(1))>>,
     <<1, DOCUMENT, Str1, USER, Str1>>,
     <<1, FOLDER, Str1, USER, Str1>>}
ConcurrentPermissions == {READ, OWNER}
ConcurrentStored == {<<k, v, NULL_TIME>> : k \in ConcurrentKeys, v \in ConcurrentPermissions}
ConcurrentRoles == {"member", "guest"}

ConcurrentTargets == {<<DOCUMENT, Str1>>, <<FOLDER, Str1>>}
ConcurrentRequired == {READ, DELETE}
ConcurrentQueries ==
    {PermissionContext(1, UuidStr(1), t[1], t[2], r) :
        t \in ConcurrentTargets, r \in ConcurrentRequired}

InitConcurrent ==
    /\ platform_admins = {}
    /\ tenant_roles = SystemRoles(1) \cup SystemRoles(2)
    /\ tenant_users = OperatorRows \cup {TenantUserRow(1, 1, MemberRoleId(1), NULL, "active")}
    /\ resource_permissions \in GrantTables(ConcurrentStored, Operator, MaxConcurrentGrants)
    /\ folders = {FolderRow(1, NULL)}
    /\ documents = {DocumentRow(1, 1)}
    /\ now = 2
    /\ moves = {}
    /\ role_deletes = {}
    /\ last = NoCall
    /\ tenants = ActiveTenants
    /\ Quiet

\* another request commits: a check that is between two reads has seen the
\* state before the commit pass, any other call outcome is left behind
Meanwhile ==
    /\ last' = IF last.op = "check, reading"
               THEN [last EXCEPT !.atomic = @ \cup {check(last.ctx)}]
               ELSE NoCall
    /\ managed' = NoManagerCall
    /\ evaluated' = NoEvaluation
    /\ UNCHANGED <<platform_admins, tenant_roles, folders, documents, now, moves,
                   role_deletes, grant_calls, middleware>>

\* update_user_status (routes/tenants.py lines 705-756)
ConcurrentStatus ==
    \E status \in {"active", "disabled"} :
        LET tenant_user == MembershipOf(1, 1)
        IN  /\ require_tenant_admin(1, Operator)
            /\ tenant_user # {}
            /\ tenant_users' = {IF tu \in tenant_user THEN [tu EXCEPT !.status = status]
                                ELSE tu : tu \in tenant_users}
            /\ UNCHANGED resource_permissions
            /\ Meanwhile

\* remove_user (routes/tenants.py lines 654-702)
ConcurrentRemove ==
    LET tenant_user == MembershipOf(1, 1)
    IN  /\ require_tenant_admin(1, Operator)
        /\ tenant_user # {}
        /\ tenant_users' = tenant_users \ tenant_user
        /\ UNCHANGED resource_permissions
        /\ Meanwhile

\* invite_user_to_tenant (routes/tenants.py lines 340-413)
ConcurrentInvite ==
    \E role_name \in ConcurrentRoles :
        LET role == RoleByName(1, role_name)
        IN  /\ require_tenant_admin(1, Operator)
            /\ MembershipOf(1, 1) = {}
            /\ role # {}
            /\ tenant_users' = tenant_users \cup
                  {TenantUserRow(1, 1, (CHOOSE r \in role : TRUE).id, NULL, "active")}
            /\ UNCHANGED resource_permissions
            /\ Meanwhile

\* update_user_role (routes/tenants.py lines 759-812)
ConcurrentRole ==
    \E role_name \in ConcurrentRoles :
        LET tenant_user == MembershipOf(1, 1)
            new_role == RoleByName(1, role_name)
        IN  /\ require_tenant_admin(1, Operator)
            /\ tenant_user # {}
            /\ new_role # {}
            /\ tenant_users' = {IF tu \in tenant_user
                                THEN [tu EXCEPT !.role_id = (CHOOSE r \in new_role : TRUE).id]
                                ELSE tu : tu \in tenant_users}
            /\ UNCHANGED resource_permissions
            /\ Meanwhile

\* PermissionManager.grant_permission (lines 304-363)
ConcurrentGrant ==
    \E k \in ConcurrentKeys, v \in ConcurrentPermissions :
        /\ resource_permissions' =
              GrantWrite(GrantCall(0, k[1], k[2], k[3], k[4], k[5], v, Operator,
                                   NULL_TIME)).table
        /\ UNCHANGED tenant_users
        /\ Meanwhile

\* PermissionManager.revoke_permission (lines 365-395)
ConcurrentRevoke ==
    \E k \in ConcurrentKeys :
        /\ resource_permissions' =
              resource_permissions \
                  {p \in resource_permissions : SameKey(p, k[1], k[2], k[3], k[4], k[5])}
        /\ UNCHANGED tenant_users
        /\ Meanwhile

ConcurrentBegin == \E ctx \in ConcurrentQueries : check_begin(ctx)

ConcurrentContinue == check_continue

NextConcurrent ==
    \/ ConcurrentBegin
    \/ ConcurrentContinue
    \/ ConcurrentStatus
    \/ ConcurrentRemove
    \/ ConcurrentInvite
    \/ ConcurrentRole
    \/ ConcurrentGrant
    \/ ConcurrentRevoke

SpecConcurrent == InitConcurrent /\ [][NextConcurrent]_vars

\* C30: a check that runs while memberships are disabled, removed or
\* re-roled and grants are written or revoked ends with the outcome that
\* check has, evaluated in one piece, on one of the store states between its
\* start and its end; and it never allows after a walk made without the
\* membership, which vanished between the membership test and the read of
\* the membership row that follows it.
C30_OutcomeOfSomeStateBetween ==
    last.op = "check, read by read"
    => /\ last.result \in last.atomic
       /\ ~(/\ last.result = ReturnTrue
            /\ last.tenant_user = {}
            /\ ~_is_platform_admin(last.ctx.user_id))

\* C30 witness: delete on document 1 was allowed to user 1 from the owner
\* grant on folder 1, found by a walk that held no membership row and so
\* passed over the member role's read grant on the document; on every state
\* the store went through the check is refused
C30_Witness ==
    /\ last.op = "check, read by read"
    /\ last.ctx = PermissionContext(1, UuidStr(1), DOCUMENT, Str1, DELETE)
    /\ last.result = ReturnTrue
    /\ last.tenant_user = {}
    /\ last.resource_type = FOLDER
    /\ ReturnTrue \notin last.atomic
    /\ last.atomic # {}


====
